---- MODULE Spec2Model ----
(***************************************************************************)
(* A model of the client core of discord.py (rewrite branch, 2017):        *)
(*   - Client.connect / Client.close        (src/discord/client.py)        *)
(*   - GuildChannel.permissions_for         (src/discord/abc.py)           *)
(*   - Client.wait_for_message / wait_for_reaction and the dispatch-side   *)
(*     handlers handle_message / handle_reaction_add (client.py)           *)
(*   - Messageable.delete_messages / Messageable.purge (abc.py)            *)
(*   - Client.dispatch / Client._run_event  (client.py)                    *)
(*   - Client.request_offline_members / _chunker (client.py)               *)
(*   - Message._update / _handle_call       (src/discord/message.py)       *)
(*   - GuildChannel._fill_overwrites, GuildChannel._move and               *)
(*     Messageable.send (abc.py)                                           *)
(*   - Message's cached properties, Message.edit / pin / unpin             *)
(*     (message.py)                                                        *)
(* Each component has its own specification (SpecConnect, SpecPerm,        *)
(* SpecWait, SpecDelete, SpecPurge, SpecDispatch, SpecOffline,             *)
(* SpecMessage, SpecFill, SpecMove, SpecSend, SpecEdit); the variables of  *)
(* the other components stay at their initial values.                      *)
(***************************************************************************)
EXTENDS Integers, Sequences, FiniteSets, TLC

\* ------------------------------------------------------------------ bounds
\* number of websocket connections one run of connect may open
MaxConnects == 3
\* highest gateway sequence number delivered
MaxSeq == 2
\* number of close() calls issued by the user task
MaxUserCloses == 2
\* number of wait_for_message / wait_for_reaction calls
MaxWaiters == 2
\* number of message and reaction events dispatched
MaxEvents == 2
\* longest overwrite list of a channel
MaxOverwrites == 2
\* number of messages the history iterator of a purge may yield
MaxHistory == 203
\* longest list handed to a direct delete_messages call
MaxDirect == 102
\* number of events handed to Client.dispatch
MaxDispatches == 2
\* number of guilds passed to one request_offline_members call
MaxGuildArgs == 2
\* number of times one payload is applied to a message
MaxUpdates == 2
\* number of times one channel payload is handed to _fill_overwrites
MaxFills == 2
\* number of channels of the guild in a _move call
MaxChannels == 3
\* number of send calls on one channel
MaxSends == 2
\* number of payloads applied to one message by _update
MaxPatches == 2

VARIABLES
    \* ---- Client.connect / Client.close
    pc,            \* position of the connect coroutine
    ws,            \* Client.ws: index into sockets, 0 is None
    sockets,       \* every DiscordWebSocket created by from_client, in order
    closed,        \* Client._closed (is_closed)
    is_ready,      \* Client._is_ready
    e,             \* the exception poll_event raised last: [type, code]
    closePc,       \* per caller of close(): the await it is suspended at
    closeTarget,   \* per caller of close(): the socket whose close() it awaits
    closeVoices,   \* per caller of close(): voice clients left in list(self.voice_clients)
    voice_clients, \* ConnectionState.voice_clients, as guild ids
    userCloses,    \* number of close() calls the user task has made
    \* ---- GuildChannel.permissions_for
    default_role,  \* guild.default_role.permissions.value
    role_perms,    \* role id -> role.permissions.value, for the other roles
    member_id,     \* member.id
    member_roles,  \* ids of member.roles
    channel_id,    \* self.id
    channel_type,  \* "text" (TextChannel) or "voice"
    overwrites,    \* self._overwrites: sequence of [id, type, allow, deny]
    result,        \* what the last permissions_for call returned
    \* ---- wait_for_message / wait_for_reaction
    listeners,     \* Client._listeners: the waiter ids of its (predicate, future, type) entries
    wparams,       \* per waiter: the keyword arguments and the WaitForType of its call
    wpc,           \* per waiter: "unused", "waiting", "released" (timer fired), "returned"
    fut,           \* per waiter: its future, [state, value]
    wret,          \* per waiter: how its wait_for_* call ended
    dispatched,    \* the message and reaction events dispatched so far
    invalid_state, \* a set_result / set_exception hit a future that was not pending
    \* ---- Messageable.delete_messages / Messageable.purge
    requests,      \* the delete requests handed to the HTTP client, in order: [kind, ids]
    dcall,         \* the direct delete_messages call: [state, messages, exc]
    ppc,           \* position of the purge coroutine
    pcheck,        \* the check argument of purge
    yielded,       \* number of messages iterator.get() has returned
    msg,           \* purge: the message iterator.get() returned last
    ret,           \* purge: ret
    count,         \* purge: count
    pexc,          \* the exception that left purge
    \* ---- Client.dispatch / Client._run_event
    registered,    \* the events the client defines an on_<event> coroutine for
    dlog,          \* the dispatch calls made so far: [event, args]
    tasks,         \* the _run_event tasks created so far: [event_name, args, state,
                   \* handler (how the handler coroutine ended), exc (what left _run_event)]
    errors,        \* the on_error calls made so far: [event_method, args, task]
    \* ---- Client.request_offline_members
    guild_flags,   \* guild id -> [large, unavailable]
    rcall,         \* the request_offline_members call: [state, guilds, exc]
    ws_sent,       \* the payloads handed to ws.send_as_json, in order
    \* ---- Message._update
    mobj,          \* the attributes of the Message object
    payload,       \* the data dict handed to _update; a key maps to a value or is absent
    mlog,          \* per _update call: [exc, message] when it ended
    \* ---- GuildChannel._fill_overwrites (it writes overwrites, above)
    ow_data,       \* data['permission_overwrites']: dicts, their 'id' key present or not
    flog,          \* per _fill_overwrites call: [exc, data (as passed), overwrites (as left)]
    \* ---- GuildChannel._move
    gchannels,     \* self.guild.channels: [id, type, position], in the order of the guild
    mcall,         \* the _move call: [state, self (a channel id), position, exc]
    patched,       \* the payloads of http.patch(url, json=payload), in order
    \* ---- Messageable.send
    sends,         \* per send call: [content, delete_after, state, exc]
    stasks,        \* the delete tasks handed to create_task: the index of their send call
    \* ---- Message: _update, cached properties, edit / pin / unpin
    emsg,          \* the message object
    ecache,        \* its _cs_ slots: unset (Absent) or set to a value
    elast,         \* per patched field, the value of the last payload that had its key
    ereq,          \* the edit / pin / unpin call that awaits its request, if any
    eread,         \* the last read of a cached property: [prop, value]
    edata,         \* the payload of the last _update
    ecount         \* number of payloads applied so far

connVars == <<pc, ws, sockets, closed, is_ready, e, closePc, closeTarget,
              closeVoices, voice_clients, userCloses>>

permVars == <<default_role, role_perms, member_id, member_roles, channel_id,
              channel_type, overwrites, result>>

waitVars == <<listeners, wparams, wpc, fut, wret, dispatched, invalid_state>>

bulkVars == <<requests, dcall, ppc, pcheck, yielded, msg, ret, count, pexc>>
dispVars == <<registered, dlog, tasks, errors>>
offlineVars == <<guild_flags, rcall, ws_sent>>
msgVars == <<mobj, payload, mlog>>
fillVars == <<ow_data, flog>>
moveVars == <<gchannels, mcall, patched>>
sendVars == <<sends, stasks>>
editVars == <<emsg, ecache, elast, ereq, eread, edata, ecount>>
opsVars == <<offlineVars, msgVars, fillVars, moveVars, sendVars, editVars>>
vars == <<connVars, permVars, waitVars, bulkVars, dispVars, opsVars>>

\* what the actions of one component leave alone
connFrame == UNCHANGED <<permVars, waitVars, bulkVars, dispVars, opsVars>>
permFrame == UNCHANGED <<connVars, waitVars, bulkVars, dispVars, opsVars>>
waitFrame == UNCHANGED <<connVars, permVars, bulkVars, dispVars, opsVars>>
bulkFrame == UNCHANGED <<connVars, permVars, waitVars, dispVars, opsVars>>
dispFrame == UNCHANGED <<connVars, permVars, waitVars, bulkVars, opsVars>>
coreFrame == UNCHANGED <<connVars, permVars, waitVars, bulkVars, dispVars>>

\* ------------------------------------------------------------------ values
\* None of a session id; session ids are strings
NoSession == "None"
Sessions == {"abc", "def"}
\* None of a sequence number; sequence numbers are 1..MaxSeq
NoSequence == 0
\* websocket close codes: normal shutdown, abnormal drop, authentication failed
NormalClosure == 1000
CloseCodes == {1000, 1006, 4004}
VoiceGuilds == {1}
Callers == {"connect", "user"}
NoException == [type |-> "none", code |-> 0]

\* ------------------------------------------------------------------ Client.connect

\* DiscordWebSocket.from_client(client, shard_id, session, sequence, resume):
\* the socket it creates holds the session id and the sequence it was given
from_client(session, sequence, resume) ==
    [session_id |-> session, sequence |-> sequence, resume |-> resume, open |-> TRUE]

\* what poll_event can raise for a close of the socket with the given code:
\* a resumable drop becomes ResumeWebSocket, anything else ConnectionClosed
poll_event_close(code) ==
    IF code \in {1000, 4004}
    THEN [type |-> "ConnectionClosed", code |-> code]
    ELSE [type |-> "ResumeWebSocket", code |-> code]

\* while not self.is_closed: ... yield from self.ws.poll_event()
LoopTest_always(is_closed) == "poll"
LoopTest(is_closed) == IF is_closed THEN "done" ELSE "poll"

\* resume = type(e) is ResumeWebSocket
IsResume_always(exc) == TRUE
IsResume(exc) == exc.type = "ResumeWebSocket"

\* the arguments of the from_client call of the except clause
ReconnectArgs_fresh(sock, exc) == from_client(NoSession, NoSequence, IsResume(exc))
ReconnectArgs(sock, exc) == from_client(sock.session_id, sock.sequence, IsResume(exc))

\* after "yield from self.close()": if e.code != 1000: raise, else the loop test
AfterClose_swallow(exc, is_closed) == LoopTest(is_closed)
AfterClose_inverted(exc, is_closed) ==
    IF exc.code = NormalClosure THEN "raised" ELSE LoopTest(is_closed)
AfterClose(exc, is_closed) ==
    IF exc.code # NormalClosure THEN "raised" ELSE LoopTest(is_closed)

\* self.ws = yield from DiscordWebSocket.from_client(self), the call
ConnectStart ==
    /\ pc = "start"
    /\ sockets' = Append(sockets, from_client(NoSession, NoSequence, FALSE))
    /\ pc' = "connecting"
    /\ UNCHANGED <<ws, closed, is_ready, e, closePc, closeTarget, closeVoices,
                   voice_clients, userCloses>>
    /\ connFrame

\* from_client returns: self.ws is assigned, then the loop test
FromClientReturn ==
    /\ pc \in {"connecting", "reconnecting"}
    /\ ws' = Len(sockets)
    /\ pc' = LoopTest(closed)
    /\ UNCHANGED <<sockets, closed, is_ready, e, closePc, closeTarget, closeVoices,
                   voice_clients, userCloses>>
    /\ connFrame

\* poll_event returns after a dispatch frame: the socket keeps the frame's
\* sequence number; READY gives the session id and handle_ready sets _is_ready
PollDispatch ==
    /\ pc = "poll"
    /\ sockets[ws].open
    /\ sockets[ws].sequence < MaxSeq
    /\ \E ready \in BOOLEAN, sid \in Sessions :
         /\ sockets' = [sockets EXCEPT
                ![ws].sequence = @ + 1,
                ![ws].session_id = IF ready THEN sid ELSE @]
         /\ is_ready' = (is_ready \/ ready)
    /\ pc' = LoopTest(closed)
    /\ UNCHANGED <<ws, closed, e, closePc, closeTarget, closeVoices,
                   voice_clients, userCloses>>
    /\ connFrame

\* except (ReconnectWebSocket, ResumeWebSocket) as e: the from_client call
Reconnect(exc) ==
    /\ Len(sockets) < MaxConnects
    /\ e' = exc
    /\ sockets' = Append([sockets EXCEPT ![ws].open = FALSE],
                         ReconnectArgs(sockets[ws], exc))
    /\ pc' = "reconnecting"
    /\ UNCHANGED <<ws, closed, is_ready, closePc, closeTarget, closeVoices,
                   voice_clients, userCloses>>
    /\ connFrame

\* the first await of close(), given the sockets as they are now
CloseAfterVoice(socks) ==
    IF ws # 0 /\ socks[ws].open THEN "ws" ELSE "http"

CloseEntry(socks) ==
    IF closed THEN "return"
    ELSE IF voice_clients # {} THEN "voice"
    ELSE CloseAfterVoice(socks)

\* except ConnectionClosed as e: yield from self.close(), up to its first await
ConnectionClosed(exc) ==
    /\ e' = exc
    /\ sockets' = [sockets EXCEPT ![ws].open = FALSE]
    /\ LET at == CloseEntry(sockets') IN
         /\ pc' = IF at = "return" THEN AfterClose(exc, closed) ELSE "closing"
         /\ closePc' = [closePc EXCEPT !["connect"] = IF at = "return" THEN "idle" ELSE at]
         /\ closeVoices' = [closeVoices EXCEPT !["connect"] = voice_clients]
         /\ closeTarget' = closeTarget
    /\ UNCHANGED <<ws, closed, is_ready, voice_clients, userCloses>>
    /\ connFrame

\* poll_event raises because the socket was closed with the given code
PollClose ==
    /\ pc = "poll"
    /\ \E code \in CloseCodes :
         /\ sockets[ws].open \/ code = NormalClosure
         /\ LET exc == poll_event_close(code) IN
              IF exc.type = "ConnectionClosed"
              THEN ConnectionClosed(exc)
              ELSE Reconnect(exc)

\* poll_event raises ReconnectWebSocket: the server asked for a reconnect
PollReconnectRequest ==
    /\ pc = "poll"
    /\ sockets[ws].open
    /\ Reconnect([type |-> "ReconnectWebSocket", code |-> 0])

\* ------------------------------------------------------------------ Client.close

\* the user task calls close(): runs up to the first await
UserClose ==
    /\ closePc["user"] = "idle"
    /\ userCloses < MaxUserCloses
    /\ userCloses' = userCloses + 1
    /\ LET at == CloseEntry(sockets) IN
         /\ closePc' = [closePc EXCEPT !["user"] = IF at = "return" THEN "idle" ELSE at]
         /\ closeVoices' = [closeVoices EXCEPT !["user"] = voice_clients]
         /\ closeTarget' = [closeTarget EXCEPT !["user"] = IF at = "ws" THEN ws ELSE @]
    /\ UNCHANGED <<pc, ws, sockets, closed, is_ready, e, voice_clients>>
    /\ connFrame

\* voice.disconnect() returns or raises (disregarded); the voice client is removed
CloseVoice(c) ==
    /\ closePc[c] = "voice"
    /\ \E g \in closeVoices[c] :
         /\ voice_clients' = voice_clients \ {g}
         /\ closeVoices' = [closeVoices EXCEPT ![c] = @ \ {g}]
         /\ LET at == IF closeVoices'[c] # {} THEN "voice" ELSE CloseAfterVoice(sockets) IN
              /\ closePc' = [closePc EXCEPT ![c] = at]
              /\ closeTarget' = [closeTarget EXCEPT ![c] = IF at = "ws" THEN ws ELSE @]
    /\ UNCHANGED <<pc, ws, sockets, closed, is_ready, e, userCloses>>
    /\ connFrame

\* self.ws.close() returns
CloseWs(c) ==
    /\ closePc[c] = "ws"
    /\ sockets' = [sockets EXCEPT ![closeTarget[c]].open = FALSE]
    /\ closePc' = [closePc EXCEPT ![c] = "http"]
    /\ UNCHANGED <<pc, ws, closed, is_ready, e, closeTarget, closeVoices,
                   voice_clients, userCloses>>
    /\ connFrame

\* self.http.close() returns; self._closed.set(); self._is_ready.clear();
\* in connect the except clause goes on
CloseHttp(c) ==
    /\ closePc[c] = "http"
    /\ closed' = TRUE
    /\ is_ready' = FALSE
    /\ closePc' = [closePc EXCEPT ![c] = "idle"]
    /\ pc' = IF c = "connect" THEN AfterClose(e, closed') ELSE pc
    /\ UNCHANGED <<ws, sockets, e, closeTarget, closeVoices, voice_clients, userCloses>>
    /\ connFrame

ConnInit ==
    /\ pc = "start"
    /\ ws = 0
    /\ sockets = <<>>
    /\ closed = FALSE
    /\ is_ready = FALSE
    /\ e = NoException
    /\ closePc = [c \in Callers |-> "idle"]
    /\ closeTarget = [c \in Callers |-> 0]
    /\ closeVoices = [c \in Callers |-> {}]
    /\ voice_clients \in SUBSET VoiceGuilds
    /\ userCloses = 0


\* ------------------------------------------------------------------ Permissions

\* bit positions of discord.Permissions
kick_members == 1
administrator == 3
manage_channels == 4
read_messages == 10
send_messages == 11
send_tts_messages == 12
manage_messages == 13
embed_links == 14
attach_files == 15
mention_everyone == 17
connect == 20
speak == 21

\* a permission value is the set of the positions of its 1 bits
\* Permissions.all(): 0b01111111111101111111110001111111
Permissions_all == (0..6) \cup (10..18) \cup (20..30)
\* Permissions.all_channel(): 0b00110011111101111111110001010001
Permissions_all_channel == {0, 4, 6} \cup (10..18) \cup (20..25) \cup {28, 29}
\* Permissions.voice(): 0b00000011111100000000000000000000
Permissions_voice == 20..25

\* Permissions.handle_overwrite: self.value = (self.value & ~deny) | allow
handle_overwrite(value, allow, deny) == (value \ deny) \cup allow

\* ------------------------------------------------------------------ GuildChannel.permissions_for

\* the guild: its id is also the id of the @everyone role and of the default channel
GuildId == 1
OwnerId == 10
MemberIds == {OwnerId, 11}
RoleIds == {2, 3}
ChannelIds == {GuildId, 20}

\* base = Permissions(default.permissions.value), then |= every role of the member
BaseWithRoles(defaultv, roles, perms) ==
    defaultv \cup UNION {perms[r] : r \in roles \cap DOMAIN perms}

\* the two accumulators of the loop over the role overwrites
RECURSIVE RoleDenies_first(_, _)
RoleDenies_first(ows, role_ids) ==
    IF ows = <<>> THEN {}
    ELSE LET o == Head(ows) IN
         IF o.type = "role" /\ o.id \in role_ids THEN o.deny
         ELSE RoleDenies_first(Tail(ows), role_ids)

RECURSIVE RoleDenies(_, _)
RoleDenies(ows, role_ids) ==
    IF ows = <<>> THEN {}
    ELSE LET o == Head(ows) IN
         (IF o.type = "role" /\ o.id \in role_ids THEN o.deny ELSE {})
            \cup RoleDenies(Tail(ows), role_ids)

RECURSIVE RoleAllows_anyRole(_, _)
RoleAllows_anyRole(ows, role_ids) ==
    IF ows = <<>> THEN {}
    ELSE LET o == Head(ows) IN
         (IF o.type = "role" THEN o.allow ELSE {})
            \cup RoleAllows_anyRole(Tail(ows), role_ids)

RECURSIVE RoleAllows(_, _)
RoleAllows(ows, role_ids) ==
    IF ows = <<>> THEN {}
    ELSE LET o == Head(ows) IN
         (IF o.type = "role" /\ o.id \in role_ids THEN o.allow ELSE {})
            \cup RoleAllows(Tail(ows), role_ids)

\* the loop over the member overwrites: the first one of the member, then break
RECURSIVE MemberOverwrite_noBreak(_, _, _)
MemberOverwrite_noBreak(value, ows, mid) ==
    IF ows = <<>> THEN value
    ELSE LET o == Head(ows) IN
         IF o.type = "member" /\ o.id = mid
         THEN MemberOverwrite_noBreak(handle_overwrite(value, o.allow, o.deny), Tail(ows), mid)
         ELSE MemberOverwrite_noBreak(value, Tail(ows), mid)

RECURSIVE MemberOverwrite(_, _, _)
MemberOverwrite(value, ows, mid) ==
    IF ows = <<>> THEN value
    ELSE LET o == Head(ows) IN
         IF o.type = "member" /\ o.id = mid
         THEN handle_overwrite(value, o.allow, o.deny)
         ELSE MemberOverwrite(value, Tail(ows), mid)

\* is_default: self.guild.id == self.id
is_default(cid) == GuildId = cid

\* if self.is_default: base.read_messages = True
DefaultChannel_skip(value, cid) == value
DefaultChannel(value, cid) ==
    IF is_default(cid) THEN value \cup {read_messages} ELSE value

\* if not base.send_messages: clear the four bits that depend on it
SendDependents_skip(value) == value
SendDependents(value) ==
    IF send_messages \notin value
    THEN value \ {send_tts_messages, mention_everyone, embed_links, attach_files}
    ELSE value

\* if not base.read_messages: base.value &= ~Permissions.all_channel().value
ReadDependents_skip(value) == value
ReadDependents(value) ==
    IF read_messages \notin value THEN value \ Permissions_all_channel ELSE value

\* if isinstance(self, TextChannel): base.value &= ~Permissions.voice().value
TextChannelVoice_voiceOnly(value, ctype) ==
    IF ctype = "voice" THEN value \ Permissions_voice ELSE value
TextChannelVoice(value, ctype) ==
    IF ctype = "text" THEN value \ Permissions_voice ELSE value

\* the owner test: member.id == self.guild.owner.id
IsOwner_never(mid) == FALSE
IsOwner(mid) == mid = OwnerId

\* the administrator test on the combined role permissions
IsAdministrator_never(value) == FALSE
IsAdministrator(value) == administrator \in value

\* the value of base after base.handle_overwrite(allow=allows, deny=denies)
\* and after the loop over the member overwrites
AfterRoleOverwrites(base, roles, ows) ==
    handle_overwrite(base, RoleAllows(ows, roles), RoleDenies(ows, roles))
AfterMemberOverwrite(base, mid, roles, ows) ==
    MemberOverwrite(AfterRoleOverwrites(base, roles, ows), ows, mid)

\* the steps after the administrator test, on the combined role permissions
Resolve(base, mid, roles, ows, cid, ctype) ==
    LET afterMember == AfterMemberOverwrite(base, mid, roles, ows)
        afterDefault == DefaultChannel(afterMember, cid)
        afterSend == SendDependents(afterDefault)
        afterRead == ReadDependents(afterSend)
    IN  TextChannelVoice(afterRead, ctype)

permissions_for(defaultv, perms, mid, roles, ows, cid, ctype) ==
    IF IsOwner(mid) THEN Permissions_all
    ELSE LET base == BaseWithRoles(defaultv, roles, perms) IN
         IF IsAdministrator(base) THEN Permissions_all
         ELSE Resolve(base, mid, roles, ows, cid, ctype)

\* the value of the base object when permissions_for returns it; the owner and
\* administrator paths return a new Permissions.all() instead
BaseAtReturn(defaultv, perms, mid, roles, ows, cid, ctype) ==
    LET base == BaseWithRoles(defaultv, roles, perms) IN
    IF IsOwner(mid) THEN defaultv
    ELSE IF IsAdministrator(base) THEN base
    ELSE Resolve(base, mid, roles, ows, cid, ctype)

\* base = Permissions(default.permissions.value) is a new object: what is
\* written to base does not reach the permissions of the default role
DefaultRoleAfter_aliased(defaultv, written) == written
DefaultRoleAfter(defaultv, written) == defaultv

NoResult ==
    [called |-> FALSE, value |-> {}, overwritten |-> FALSE, after_roles |-> {},
     after_member |-> {}]

\* a call of channel.permissions_for(member)
PermissionsFor ==
    /\ LET base == BaseWithRoles(default_role, member_roles, role_perms) IN
         result' = [called |-> TRUE,
                    value |-> permissions_for(default_role, role_perms, member_id,
                                  member_roles, overwrites, channel_id, channel_type),
                    \* the value base had on the way, where the overwrites are reached
                    overwritten |-> ~IsOwner(member_id) /\ ~IsAdministrator(base),
                    after_roles |-> AfterRoleOverwrites(base, member_roles, overwrites),
                    after_member |-> AfterMemberOverwrite(base, member_id, member_roles,
                                         overwrites)]
    /\ default_role' = DefaultRoleAfter(default_role,
                           BaseAtReturn(default_role, role_perms, member_id,
                               member_roles, overwrites, channel_id, channel_type))
    /\ UNCHANGED <<role_perms, member_id, member_roles, channel_id, channel_type,
                   overwrites>>
    /\ permFrame

\* the inputs the resolution is checked on
DefaultPermChoices ==
    { {},
      {read_messages, send_messages, embed_links, mention_everyone, connect, kick_members},
      {administrator, read_messages} }
RolePermChoices ==
    { {administrator},
      {send_messages, attach_files, send_tts_messages, speak, manage_channels} }
OverwriteTargets ==
    { [id |-> GuildId, type |-> "role"], [id |-> 2, type |-> "role"],
      [id |-> 3, type |-> "role"], [id |-> 11, type |-> "member"] }
OverwriteMasks ==
    { [allow |-> {read_messages, send_messages, embed_links}, deny |-> {}],
      [allow |-> {}, deny |-> {read_messages}],
      [allow |-> {connect, speak, attach_files}, deny |-> {send_messages, manage_messages}] }
Overwrites ==
    { [id |-> t.id, type |-> t.type, allow |-> m.allow, deny |-> m.deny] :
        t \in OverwriteTargets, m \in OverwriteMasks }
RECURSIVE SeqsUpTo(_, _)
SeqsUpTo(S, n) ==
    IF n = 0 THEN {<<>>}
    ELSE LET shorter == SeqsUpTo(S, n - 1) IN
         shorter \cup {Append(q, x) : q \in shorter, x \in S}

\* ------------------------------------------------------------------ wait_for_message / wait_for_reaction

Waiters == 1..MaxWaiters
None == "None"

\* the events: a message, or a reaction with the user who added it
Messages ==
    { [type |-> "message", author |-> "a1", content |-> "hello", channel |-> 1],
      [type |-> "message", author |-> "a2", content |-> "hello", channel |-> 2] }
Reactions ==
    { [type |-> "reaction", emoji |-> "e1", message |-> 1, user |-> "u1"] }

\* a check function: it returns True, returns False or raises
call_check(check) ==
    CASE check = "true" -> "True"
      [] check = "false" -> "False"
      [] check = "raise" -> "raise"

\* result = result and check(...): check is only called while result is true
and_check(res, check) ==
    IF check = None THEN (IF res THEN "True" ELSE "False")
    ELSE IF res THEN call_check(check) ELSE "False"

\* the predicate closure of wait_for_message
predicate_message(p, message) ==
    LET r1 == (p.author # None) => (message.author = p.author)
        r2 == r1 /\ ((p.content # None) => (message.content = p.content))
        r3 == r2 /\ ((p.channel # 0) => (message.channel = p.channel))
    IN  and_check(r3, p.check)

\* emoji_check of wait_for_reaction: None, one emoji, or a sequence of emoji
emoji_check(emoji, reaction) ==
    IF emoji = {} THEN TRUE
    ELSE reaction.emoji \in emoji

\* the predicate closure of wait_for_reaction
predicate_reaction(p, reaction) ==
    LET r1 == emoji_check(p.emoji, reaction)
        r2 == r1 /\ ((p.message # 0) => (p.message = reaction.message))
        r3 == r2 /\ ((p.user # None) => (p.user = reaction.user))
    IN  and_check(r3, p.check)

condition(p, event) ==
    IF p.type = "message" THEN predicate_message(p, event)
    ELSE predicate_reaction(p, event)

\* the calls that are made: keyword arguments, None as "None" (0 for ids, {} for emoji)
MessageWaits ==
    { [type |-> "message", author |-> "a1", content |-> "hello", channel |-> 1,
       check |-> None, timeout |-> TRUE],
      [type |-> "message", author |-> None, content |-> None, channel |-> 0,
       check |-> "false", timeout |-> TRUE],
      [type |-> "message", author |-> "a1", content |-> None, channel |-> 0,
       check |-> "raise", timeout |-> FALSE] }
ReactionWaits ==
    { [type |-> "reaction", emoji |-> {"e1", "e2"}, message |-> 1, user |-> None,
       check |-> "false", timeout |-> TRUE],
      [type |-> "reaction", emoji |-> {"e1"}, message |-> 0, user |-> "u1",
       check |-> "raise", timeout |-> FALSE],
      [type |-> "reaction", emoji |-> {}, message |-> 0, user |-> "u1",
       check |-> "true", timeout |-> TRUE] }
NoParams == [type |-> "none"]

NoFuture == [state |-> "none", value |-> 0]
NoReturn == [kind |-> "none", value |-> 0, exc |-> None]
Return(v) == [kind |-> "return", value |-> v, exc |-> None]
Raise(x) == [kind |-> "raise", value |-> 0, exc |-> x]

\* what one pass of the handler loop does with an entry of its type: the
\* cancelled test, then the try / except / else around condition(...)
Decide_keepCancelled(state, res) ==
    IF state = "cancelled" THEN "keep"
    ELSE IF res = "raise" THEN "exception"
    ELSE IF res = "True" THEN "result"
    ELSE "keep"
Decide_noCancelTest(state, res) ==
    IF res = "raise" THEN "exception"
    ELSE IF res = "True" THEN "result"
    ELSE "keep"
Decide_inverted(state, res) ==
    IF state = "cancelled" THEN "drop"
    ELSE IF res = "raise" THEN "exception"
    ELSE IF res = "False" THEN "result"
    ELSE "keep"
Decide(state, res) ==
    IF state = "cancelled" THEN "drop"
    ELSE IF res = "raise" THEN "exception"
    ELSE IF res = "True" THEN "result"
    ELSE "keep"

\* the decision for entry i of the list; entries of the other type are skipped
EntryDecision_abort(i, type, event) ==
    LET w == listeners[i]
        raises(j) == /\ wparams[listeners[j]].type = type
                     /\ fut[listeners[j]].state # "cancelled"
                     /\ condition(wparams[listeners[j]], event) = "raise"
    IN
    IF wparams[w].type # type THEN "keep"
    ELSE IF \E j \in 1..(i - 1) : raises(j) THEN "keep"
    ELSE IF raises(i) THEN "keep"
    ELSE Decide(fut[w].state, condition(wparams[w], event))
EntryDecision(i, type, event) ==
    LET w == listeners[i] IN
    IF wparams[w].type # type THEN "keep"
    ELSE Decide(fut[w].state, condition(wparams[w], event))

\* removed: the indices appended in the loop, in increasing order
RECURSIVE Removed(_, _, _)
Removed(i, type, event) ==
    IF i > Len(listeners) THEN <<>>
    ELSE (IF EntryDecision(i, type, event) # "keep" THEN <<i>> ELSE <<>>)
            \o Removed(i + 1, type, event)

\* del l[idx]
DelAt(l, idx) == SubSeq(l, 1, idx - 1) \o SubSeq(l, idx + 1, Len(l))

\* for idx in reversed(removed): del self._listeners[idx]
RECURSIVE DelReversed_forward(_, _)
DelReversed_forward(l, removed) ==
    IF removed = <<>> THEN l
    ELSE DelReversed_forward(DelAt(l, Head(removed)), Tail(removed))

RECURSIVE DelReversed(_, _)
DelReversed(l, removed) ==
    IF removed = <<>> THEN l
    ELSE DelReversed(DelAt(l, removed[Len(removed)]), SubSeq(removed, 1, Len(removed) - 1))

\* future.set_result / future.set_exception: only a pending future takes it
SetFuture(f, state, value) ==
    IF f.state = "pending" THEN [state |-> state, value |-> value] ELSE f

\* handle_message / handle_reaction_add, for event number n of the dispatch log
Handle(type, event, n) ==
    LET idx(w) == CHOOSE i \in 1..Len(listeners) : listeners[i] = w
        listed == {listeners[i] : i \in 1..Len(listeners)}
        dec(w) == EntryDecision(idx(w), type, event)
    IN
    /\ fut' = [w \in Waiters |->
                 IF w \notin listed THEN fut[w]
                 ELSE CASE dec(w) = "result" -> SetFuture(fut[w], "result", n)
                        [] dec(w) = "exception" -> SetFuture(fut[w], "exception", n)
                        [] OTHER -> fut[w]]
    /\ invalid_state' =
          (invalid_state \/ \E w \in listed :
              dec(w) \in {"result", "exception"} /\ fut[w].state # "pending")
    /\ listeners' = DelReversed(listeners, Removed(1, type, event))

\* dispatch('message', message): handle_message(message)
HandleMessage ==
    /\ Len(dispatched) < MaxEvents
    /\ \E m \in Messages :
         /\ dispatched' = Append(dispatched, m)
         /\ Handle("message", m, Len(dispatched) + 1)
    /\ UNCHANGED <<wparams, wpc, wret>>
    /\ waitFrame

\* dispatch('reaction_add', reaction, user): handle_reaction_add(reaction, user)
HandleReactionAdd ==
    /\ Len(dispatched) < MaxEvents
    /\ \E r \in Reactions :
         /\ dispatched' = Append(dispatched, r)
         /\ Handle("reaction", r, Len(dispatched) + 1)
    /\ UNCHANGED <<wparams, wpc, wret>>
    /\ waitFrame

\* future = create_future(); self._listeners.append((predicate, future, type));
\* then the coroutine is suspended in asyncio.wait_for(future, timeout)
Register(w, p) ==
    /\ wpc[w] = "unused"
    /\ \A v \in Waiters : v < w => wpc[v] # "unused"
    /\ wparams' = [wparams EXCEPT ![w] = p]
    /\ fut' = [fut EXCEPT ![w] = [state |-> "pending", value |-> 0]]
    /\ listeners' = Append(listeners, w)
    /\ wpc' = [wpc EXCEPT ![w] = "waiting"]
    /\ UNCHANGED <<wret, dispatched, invalid_state>>
    /\ waitFrame

WaitForMessage == \E w \in Waiters, p \in MessageWaits : Register(w, p)

WaitForReaction == \E w \in Waiters, p \in ReactionWaits : Register(w, p)

\* the timeout of asyncio.wait_for elapses: its timer releases the waiter
TimerFires ==
    \E w \in Waiters :
      /\ wpc[w] = "waiting"
      /\ wparams[w].timeout
      /\ wpc' = [wpc EXCEPT ![w] = "released"]
      /\ UNCHANGED <<listeners, wparams, fut, wret, dispatched, invalid_state>>
      /\ waitFrame

\* try: ... yield from asyncio.wait_for(...) except asyncio.TimeoutError: None
wait_for_outcome_uncaught(outcome) == outcome
wait_for_outcome(outcome) ==
    IF outcome.kind = "raise" /\ outcome.exc = "TimeoutError"
    THEN Return(0)
    ELSE outcome

\* the waiter runs again with its future done: wait_for returns fut.result()
ResumeDone ==
    \E w \in Waiters :
      /\ wpc[w] \in {"waiting", "released"}
      /\ fut[w].state \in {"result", "exception"}
      /\ wret' = [wret EXCEPT ![w] = wait_for_outcome(
                     IF fut[w].state = "result" THEN Return(fut[w].value)
                     ELSE Raise("CheckError"))]
      /\ wpc' = [wpc EXCEPT ![w] = "returned"]
      /\ UNCHANGED <<listeners, wparams, fut, dispatched, invalid_state>>
      /\ waitFrame

\* the waiter runs again after its timer with the future still pending:
\* wait_for cancels the future and raises TimeoutError
ResumeTimeout ==
    \E w \in Waiters :
      /\ wpc[w] = "released"
      /\ fut[w].state = "pending"
      /\ fut' = [fut EXCEPT ![w].state = "cancelled"]
      /\ wret' = [wret EXCEPT ![w] = wait_for_outcome(Raise("TimeoutError"))]
      /\ wpc' = [wpc EXCEPT ![w] = "returned"]
      /\ UNCHANGED <<listeners, wparams, dispatched, invalid_state>>
      /\ waitFrame

\* the task of the waiter is cancelled: the future is cancelled with it and
\* CancelledError leaves wait_for_message / wait_for_reaction
CancelWaiter ==
    \E w \in Waiters :
      /\ wpc[w] \in {"waiting", "released"}
      /\ fut[w].state = "pending"
      /\ fut' = [fut EXCEPT ![w].state = "cancelled"]
      /\ wret' = [wret EXCEPT ![w] = wait_for_outcome(Raise("CancelledError"))]
      /\ wpc' = [wpc EXCEPT ![w] = "returned"]
      /\ UNCHANGED <<listeners, wparams, dispatched, invalid_state>>
      /\ waitFrame

WaitInit ==
    /\ listeners = <<>>
    /\ wparams = [w \in Waiters |-> NoParams]
    /\ wpc = [w \in Waiters |-> "unused"]
    /\ fut = [w \in Waiters |-> NoFuture]
    /\ wret = [w \in Waiters |-> NoReturn]
    /\ dispatched = <<>>
    /\ invalid_state = FALSE

\* ------------------------------------------------------------------ delete_messages / purge

\* message number i of a channel history, newest first
Message(i) ==
    [id |-> 1000 - i, author |-> IF i % 2 = 1 THEN "a1" ELSE "a2", pinned |-> (i = 1)]

\* the check arguments of purge: None, or a function of the message
Checks == {None, "never", "by_a1", "by_a2", "pinned"}

\* check(msg); a check of None is replaced by lambda m: True
check(c, m) ==
    CASE c = None -> TRUE
      [] c = "never" -> FALSE
      [] c = "by_a1" -> m.author = "a1"
      [] c = "by_a2" -> m.author = "a2"
      [] c = "pinned" -> m.pinned

\* [m.id for m in messages]
message_ids_reversed(messages) ==
    [i \in 1..Len(messages) |-> messages[Len(messages) + 1 - i].id]
message_ids(messages) ==
    [i \in 1..Len(messages) |-> messages[i].id]

\* http.delete_messages(channel_id, message_ids, guild_id)
BulkRequest(ids) == [kind |-> "bulk", ids |-> ids]
\* Message.delete: http.delete_message(channel.id, self.id, guild_id)
SingleRequest(m) == [kind |-> "single", ids |-> <<m.id>>]

\* len(messages) > 100 or len(messages) < 2
OutOfRange_upperOnly(n) == n > 100
OutOfRange(n) == n > 100 \/ n < 2

\* delete_messages up to its request: the exception it raises, or the request
\* it hands to the HTTP client
delete_messages_single(messages) ==
    IF Len(messages) = 1
    THEN [exc |-> None, request |-> <<SingleRequest(messages[1])>>]
    ELSE IF OutOfRange(Len(messages))
    THEN [exc |-> "ClientException", request |-> <<>>]
    ELSE [exc |-> None, request |-> <<BulkRequest(message_ids(messages))>>]
delete_messages(messages) ==
    IF OutOfRange(Len(messages))
    THEN [exc |-> "ClientException", request |-> <<>>]
    ELSE [exc |-> None, request |-> <<BulkRequest(message_ids(messages))>>]

\* the lists a caller passes: the first n messages of the history, in either order
DirectLists ==
    UNION { { [i \in 1..n |-> Message(i)], [i \in 1..n |-> Message(n + 1 - i)] } :
            n \in 0..MaxDirect }

NoCall == [state |-> "idle", messages |-> <<>>, exc |-> None]

\* a caller awaits channel.delete_messages(messages)
DeleteMessages ==
    /\ dcall.state = "idle"
    /\ \E messages \in DirectLists :
         LET out == delete_messages(messages) IN
         /\ requests' = requests \o out.request
         /\ dcall' = [state |-> IF out.exc = None THEN "awaiting" ELSE "raised",
                      messages |-> messages, exc |-> out.exc]
    /\ UNCHANGED <<ppc, pcheck, yielded, msg, ret, count, pexc>>
    /\ bulkFrame

\* the HTTP client answers the request of the direct call
DeleteMessagesDone ==
    /\ dcall.state = "awaiting"
    /\ dcall' = [dcall EXCEPT !.state = "returned"]
    /\ UNCHANGED <<requests, ppc, pcheck, yielded, msg, ret, count, pexc>>
    /\ bulkFrame

\* the request of the direct call fails (Forbidden, HTTPException)
DeleteMessagesFails ==
    /\ dcall.state = "awaiting"
    /\ dcall' = [dcall EXCEPT !.state = "raised", !.exc = "HTTPException"]
    /\ UNCHANGED <<requests, ppc, pcheck, yielded, msg, ret, count, pexc>>
    /\ bulkFrame

\* l[-n:]
LastN(l, n) ==
    IF n = 0 \/ n >= Len(l) THEN l
    ELSE SubSeq(l, Len(l) - n + 1, Len(l))

\* if count == 100: the queue is full
QueueFull_late(c) == c = 101
QueueFull(c) == c = 100

\* if check(msg): count += 1; ret.append(msg)
Accumulate_uncounted(r, c, m, chk) ==
    IF check(chk, m) THEN [ret |-> Append(r, m), count |-> c]
    ELSE [ret |-> r, count |-> c]
Accumulate(r, c, m, chk) ==
    IF check(chk, m) THEN [ret |-> Append(r, m), count |-> c + 1]
    ELSE [ret |-> r, count |-> c]

\* except NoMoreMessages: the branch taken on the pending count
OnNoMoreMessages_bulkOnly(c) ==
    IF c >= 1 THEN "bulk" ELSE "return"
OnNoMoreMessages_uncaught(c) == "raise"
OnNoMoreMessages(c) ==
    IF c >= 2 THEN "bulk"
    ELSE IF c = 1 THEN "single"
    ELSE "return"

\* a caller awaits channel.purge(check=...): up to the first iterator.get()
Purge ==
    /\ ppc = "idle"
    /\ \E c \in Checks : pcheck' = c
    /\ ret' = <<>>
    /\ count' = 0
    /\ ppc' = "get"
    /\ UNCHANGED <<requests, dcall, yielded, msg, pexc>>
    /\ bulkFrame

\* iterator.get() returns a message: the else branch of the loop, up to the
\* next await
PurgeGetMessage ==
    /\ ppc = "get"
    /\ yielded < MaxHistory
    /\ yielded' = yielded + 1
    /\ msg' = Message(yielded + 1)
    /\ IF QueueFull(count)
       THEN LET out == delete_messages(LastN(ret, 100)) IN
            /\ requests' = requests \o out.request
            /\ ppc' = IF out.exc = None THEN "flush" ELSE "raised"
            /\ pexc' = out.exc
            /\ UNCHANGED <<ret, count>>
       ELSE LET acc == Accumulate(ret, count, Message(yielded + 1), pcheck) IN
            /\ ret' = acc.ret
            /\ count' = acc.count
            /\ UNCHANGED <<requests, ppc, pexc>>
    /\ UNCHANGED <<dcall, pcheck>>
    /\ bulkFrame

\* the bulk delete of a full queue is answered: count = 0, sleep(1), then the
\* message that was waiting is checked
PurgeFlushDone ==
    /\ ppc = "flush"
    /\ LET acc == Accumulate(ret, 0, msg, pcheck) IN
         /\ ret' = acc.ret
         /\ count' = acc.count
    /\ ppc' = "get"
    /\ UNCHANGED <<requests, dcall, pcheck, yielded, msg, pexc>>
    /\ bulkFrame

\* iterator.get() raises NoMoreMessages: the except branch, up to its await
PurgeExhausted ==
    /\ ppc = "get"
    /\ LET branch == OnNoMoreMessages(count) IN
       CASE branch = "bulk" ->
              LET out == delete_messages(LastN(ret, count)) IN
              /\ requests' = requests \o out.request
              /\ ppc' = IF out.exc = None THEN "final" ELSE "raised"
              /\ pexc' = out.exc
         [] branch = "single" ->
              /\ requests' = Append(requests, SingleRequest(ret[Len(ret)]))
              /\ ppc' = "final"
              /\ pexc' = pexc
         [] branch = "return" ->
              /\ ppc' = "returned"
              /\ UNCHANGED <<requests, pexc>>
         [] OTHER ->
              /\ ppc' = "raised"
              /\ pexc' = "NoMoreMessages"
              /\ requests' = requests
    /\ UNCHANGED <<dcall, pcheck, yielded, msg, ret, count>>
    /\ bulkFrame

\* the last delete request is answered: return ret
PurgeFinalDone ==
    /\ ppc = "final"
    /\ ppc' = "returned"
    /\ UNCHANGED <<requests, dcall, pcheck, yielded, msg, ret, count, pexc>>
    /\ bulkFrame

\* a delete request of purge fails (Forbidden, HTTPException)
PurgeRequestFails ==
    /\ ppc \in {"flush", "final"}
    /\ ppc' = "raised"
    /\ pexc' = "HTTPException"
    /\ UNCHANGED <<requests, dcall, pcheck, yielded, msg, ret, count>>
    /\ bulkFrame

BulkInit ==
    /\ requests = <<>>
    /\ dcall = NoCall
    /\ ppc = "idle"
    /\ pcheck = None
    /\ yielded = 0
    /\ msg = Message(0)
    /\ ret = <<>>
    /\ count = 0
    /\ pexc = None

\* ------------------------------------------------------------------ dispatch / _run_event

\* events without a handle_<event> method, and the arguments they carry
Events == {"typing", "member_join"}
EventArgs == {<<1>>, <<2>>}

\* method = 'on_' + event
Method(event) == <<"on_", event>>

\* _run_event around the handler coroutine: CancelledError is dropped, any
\* other exception goes to on_error, nothing leaves the try statement
run_event_uncaught(outcome) ==
    [on_error |-> FALSE, exc |-> IF outcome = "ok" THEN None ELSE outcome]
run_event(outcome) ==
    [on_error |-> (outcome \notin {"ok", "CancelledError"}), exc |-> None]

\* dispatch(event, *args): no handle_<event>; a task for on_<event> if defined
Dispatch ==
    /\ Len(dlog) < MaxDispatches
    /\ \E event \in Events, args \in EventArgs :
         /\ dlog' = Append(dlog, [event |-> event, args |-> args])
         /\ tasks' = IF event \in registered
                     THEN Append(tasks, [event_name |-> Method(event), args |-> args,
                                         state |-> "scheduled", handler |-> None,
                                         exc |-> None])
                     ELSE tasks
    /\ UNCHANGED <<registered, errors>>
    /\ dispFrame

\* a task runs _run_event up to the end of the handler coroutine, which
\* returns, raises or is cancelled
RunEvent ==
    \E t \in 1..Len(tasks), outcome \in {"ok", "HandlerError", "CancelledError"} :
      LET r == run_event(outcome) IN
      /\ tasks[t].state = "scheduled"
      /\ tasks' = [tasks EXCEPT ![t].state = IF r.on_error THEN "on_error" ELSE "done",
                                ![t].handler = outcome,
                                ![t].exc = r.exc]
      /\ errors' = IF r.on_error
                   THEN Append(errors, [event_method |-> tasks[t].event_name,
                                        args |-> tasks[t].args, task |-> t])
                   ELSE errors
      /\ UNCHANGED <<registered, dlog>>
      /\ dispFrame

\* on_error ends: it returns, is cancelled, or (overridden) raises itself
OnErrorEnds ==
    \E t \in 1..Len(tasks), outcome \in {"ok", "CancelledError", "OnErrorError"} :
      /\ tasks[t].state = "on_error"
      /\ tasks' = [tasks EXCEPT ![t].state = "done",
                                ![t].exc = IF outcome = "OnErrorError" THEN outcome ELSE None]
      /\ UNCHANGED <<registered, dlog, errors>>
      /\ dispFrame

DispIdle ==
    /\ registered = {}
    /\ dlog = <<>>
    /\ tasks = <<>>
    /\ errors = <<>>

DispInit ==
    /\ registered \in SUBSET Events
    /\ dlog = <<>>
    /\ tasks = <<>>
    /\ errors = <<>>

\* ------------------------------------------------------------------ request_offline_members

OfflineGuilds == {1, 2, 3}

\* any(not g.large or g.unavailable for g in guilds)
Rejected_largeOnly(guilds) ==
    \E i \in 1..Len(guilds) : ~guild_flags[guilds[i]].large
Rejected(guilds) ==
    \E i \in 1..Len(guilds) :
        ~guild_flags[guilds[i]].large \/ guild_flags[guilds[i]].unavailable

\* _chunker with the tuple of guilds: the op 8 payload with the list of their ids
chunker(guilds) ==
    [op |-> 8, guild_id |-> guilds, query |-> "", limit |-> 0]

\* a caller awaits client.request_offline_members(*guilds): up to the await of
\* the send; connection.request_offline_members hands the guilds to the chunker
RequestOfflineMembers ==
    /\ rcall.state = "idle"
    /\ \E guilds \in SeqsUpTo(OfflineGuilds, MaxGuildArgs) :
         IF Rejected(guilds)
         THEN /\ rcall' = [state |-> "raised", guilds |-> guilds, exc |-> "InvalidArgument"]
              /\ ws_sent' = ws_sent
         ELSE /\ rcall' = [state |-> "awaiting", guilds |-> guilds, exc |-> None]
              /\ ws_sent' = Append(ws_sent, chunker(guilds))
    /\ UNCHANGED guild_flags
    /\ coreFrame
    /\ UNCHANGED <<msgVars, fillVars, moveVars, sendVars, editVars>>

\* the request is on the wire: request_offline_members returns
RequestOfflineReturns ==
    /\ rcall.state = "awaiting"
    /\ rcall' = [rcall EXCEPT !.state = "returned"]
    /\ UNCHANGED <<guild_flags, ws_sent>>
    /\ coreFrame
    /\ UNCHANGED <<msgVars, fillVars, moveVars, sendVars, editVars>>

\* ------------------------------------------------------------------ Message._update

\* a user id as it is on the wire (a string of digits) and a User / Member object
WireId(n) == [kind |-> "str", id |-> n]
User(n) == [kind |-> "user", id |-> n]
UserIds == {10, 11}

\* int(x): defined on the strings of digits, TypeError on a User
to_int(x) == IF x.kind = "str" THEN x.id ELSE -1

\* a key of the data dict: absent (data[key] raises KeyError) or present with a value
Absent == [present |-> FALSE, null |-> FALSE, value |-> <<>>]
Key(v) == [present |-> TRUE, null |-> FALSE, value |-> v]
Null == [present |-> TRUE, null |-> TRUE, value |-> <<>>]

\* the payloads: mentions and call.participants are lists, author an id
Payloads ==
    [ mentions : {Absent, Key(<<>>), Key(<<WireId(11)>>)},
      call : {Absent, Null, Key(<<>>), Key(<<WireId(10)>>), Key(<<WireId(11), WireId(12)>>)},
      author : {Absent, Key(<<WireId(10)>>), Key(<<WireId(11)>>)},
      content : {Absent, Key(<<"hi">>)},
      pinned : {Absent, Key(<<TRUE>>)} ]

\* the messages: MessageType default or call; guild None or its member ids
NoGuild == {0}
MessageObjects ==
    [ type : {"default", "call"},
      author : {User(n) : n \in UserIds},
      mentions : {<<>>, <<User(11)>>},
      guild : {NoGuild, {11}},
      call : {Null},
      content : {"", "hi"},
      pinned : {FALSE} ]

\* _handle_mentions: users by try_insert_user without a guild, else the
\* mentioned ids that guild.get_member finds
RECURSIVE MentionsOf(_, _)
MentionsOf(guild, mentions) ==
    IF mentions = <<>> THEN <<>>
    ELSE LET n == to_int(Head(mentions)) IN
         (IF guild = NoGuild \/ n \in guild THEN <<User(n)>> ELSE <<>>)
            \o MentionsOf(guild, Tail(mentions))

\* the loop of _handle_call over map(int, call.get('participants', [])): the
\* author, or the mentioned user with that id, or nothing
RECURSIVE Participants(_, _)
Participants(m, uids) ==
    IF uids = <<>> THEN <<>>
    ELSE LET uid == to_int(Head(uids)) IN
         (IF uid = m.author.id THEN <<m.author>>
          ELSE IF \E i \in 1..Len(m.mentions) : m.mentions[i].id = uid
               THEN <<User(uid)>> ELSE <<>>)
            \o Participants(m, Tail(uids))

\* _handle_call: [message, data, exc]; call['participants'] = participants
\* writes the User objects into the data dict
handle_call(m, data) ==
    IF data.call.null \/ m.type # "call"
    THEN [message |-> [m EXCEPT !.call = Null], data |-> data, exc |-> None]
    ELSE IF \E i \in 1..Len(data.call.value) : to_int(data.call.value[i]) = -1
    THEN [message |-> m, data |-> data, exc |-> "TypeError"]
    ELSE LET participants == Participants(m, data.call.value) IN
         [message |-> [m EXCEPT !.call = Key(participants)],
          data |-> [data EXCEPT !.call = Key(participants)], exc |-> None]

\* _try_patch for author (try_insert_user), pinned (bool) and content (str)
try_patch_reset(m, data) ==
    [m EXCEPT !.author = IF data.author.present
                         THEN User(to_int(data.author.value[1])) ELSE @,
              !.pinned = IF data.pinned.present THEN data.pinned.value[1] ELSE FALSE,
              !.content = IF data.content.present THEN data.content.value[1] ELSE @]
try_patch(m, data) ==
    [m EXCEPT !.author = IF data.author.present
                         THEN User(to_int(data.author.value[1])) ELSE @,
              !.pinned = IF data.pinned.present THEN data.pinned.value[1] ELSE @,
              !.content = IF data.content.present THEN data.content.value[1] ELSE @]

\* _update: the handlers of mentions and call, then the patches; an exception
\* of a handler other than KeyError leaves _update at once
update(m, data) ==
    LET m1 == IF data.mentions.present
              THEN [m EXCEPT !.mentions = MentionsOf(m.guild, data.mentions.value)]
              ELSE m
        r == IF data.call.present THEN handle_call(m1, data)
             ELSE [message |-> m1, data |-> data, exc |-> None]
    IN  IF r.exc # None THEN r
        ELSE [message |-> try_patch(r.message, r.data), data |-> r.data, exc |-> None]

\* message._update(channel, data) with the data dict of the calls before
Update ==
    /\ Len(mlog) < MaxUpdates
    /\ \A i \in 1..Len(mlog) : mlog[i].exc = None
    /\ LET r == update(mobj, payload) IN
         /\ mobj' = r.message
         /\ payload' = r.data
         /\ mlog' = Append(mlog, [exc |-> r.exc, message |-> r.message])
    /\ coreFrame
    /\ UNCHANGED <<offlineVars, fillVars, moveVars, sendVars, editVars>>

MsgIdle ==
    /\ mobj = [type |-> "default", author |-> User(10), mentions |-> <<>>,
                  guild |-> NoGuild, call |-> Null, content |-> "", pinned |-> FALSE]
    /\ payload = [mentions |-> Absent, call |-> Absent, author |-> Absent,
                  content |-> Absent, pinned |-> Absent]
    /\ mlog = <<>>

MsgInit ==
    /\ mobj \in MessageObjects
    /\ payload \in Payloads
    /\ mlog = <<>>

\* ------------------------------------------------------------------ GuildChannel._fill_overwrites

\* the dict of one overwrite in a channel payload, with its 'id' key
PayloadEntry(o) ==
    [has_id |-> TRUE, id |-> o.id, type |-> o.type, allow |-> o.allow, deny |-> o.deny]

\* _Overwrites(id=overridden_id, **overridden), after overridden.pop('id')
OverwriteOf(d) == [id |-> d.id, type |-> d.type, allow |-> d.allow, deny |-> d.deny]

\* the longest prefix of the list whose dicts still have their 'id'
RECURSIVE WithId(_)
WithId(data) ==
    IF data = <<>> \/ ~Head(data).has_id THEN <<>>
    ELSE <<Head(data)>> \o WithId(Tail(data))

\* everyone_index: 0, or the index of the last role overwrite of the guild id
\* (here counted from 1)
RECURSIVE EveryoneIndex(_, _)
EveryoneIndex(data, n) ==
    IF n = 0 THEN 1
    ELSE IF data[n].type # "member" /\ data[n].id = GuildId THEN n
    ELSE EveryoneIndex(data, n - 1)

\* tmp[everyone_index], tmp[0] = tmp[0], tmp[everyone_index]
SwapFirst_assign(tmp, idx) ==
    IF tmp = <<>> THEN tmp ELSE [tmp EXCEPT ![1] = tmp[idx]]
SwapFirst(tmp, idx) ==
    IF tmp = <<>> THEN tmp ELSE [tmp EXCEPT ![idx] = tmp[1], ![1] = tmp[idx]]

\* _fill_overwrites: [exc, overwrites, data]; pop('id') takes the key out of
\* each dict it visits and raises KeyError on a dict without it
fill_overwrites(data) ==
    LET done == WithId(data)
        popped == [i \in 1..Len(data) |->
                     IF i <= Len(done) THEN [data[i] EXCEPT !.has_id = FALSE] ELSE data[i]]
        appended == [i \in 1..Len(done) |-> OverwriteOf(done[i])]
    IN  IF Len(done) < Len(data)
        THEN [exc |-> "KeyError", overwrites |-> appended, data |-> popped]
        ELSE [exc |-> None,
              overwrites |-> SwapFirst(appended, EveryoneIndex(data, Len(data))),
              data |-> popped]

\* channel._fill_overwrites(data) with the data dict of the calls before
FillOverwrites ==
    /\ Len(flog) < MaxFills
    /\ LET r == fill_overwrites(ow_data) IN
         /\ overwrites' = r.overwrites
         /\ ow_data' = r.data
         /\ flog' = Append(flog, [exc |-> r.exc, data |-> ow_data, overwrites |-> r.overwrites])
    /\ UNCHANGED <<default_role, role_perms, member_id, member_roles, channel_id,
                   channel_type, result>>
    /\ UNCHANGED <<connVars, waitVars, bulkVars, dispVars, offlineVars, msgVars, moveVars, sendVars, editVars>>

FillIdle ==
    /\ ow_data = <<>>
    /\ flog = <<>>

FillInit ==
    /\ ow_data \in {[i \in 1..Len(l) |-> PayloadEntry(l[i])] :
                      l \in SeqsUpTo(Overwrites, MaxOverwrites)}
    /\ flog = <<>>

\* ------------------------------------------------------------------ GuildChannel._move

\* [c for c in self.guild.channels if isinstance(c, type(self))]
OfType(l, type) == SelectSeq(l, LAMBDA c : c.type = type)

\* channels.sort(key=lambda c: c.position): a stable sort
RECURSIVE InsertSorted(_, _)
InsertSorted(sorted, c) ==
    IF sorted = <<>> THEN <<c>>
    ELSE IF Head(sorted).position <= c.position
         THEN <<Head(sorted)>> \o InsertSorted(Tail(sorted), c)
         ELSE <<c>> \o sorted
RECURSIVE SortByPosition(_)
SortByPosition(l) ==
    IF l = <<>> THEN <<>>
    ELSE InsertSorted(SortByPosition(SubSeq(l, 1, Len(l) - 1)), l[Len(l)])

\* channels.remove(self); channels.insert(position, self)
InsertAt_append(l, position, c) == Append(l, c)
InsertAt(l, position, c) ==
    SubSeq(l, 1, position) \o <<c>> \o SubSeq(l, position + 1, Len(l))

\* _move up to its request: the exception it raises, or the payload it sends.
\* (the names abc.py uses without importing them, InvalidArgument here, are
\* taken as bound to the classes of the modules that define them)
move(channels, self, position) ==
    LET mine == OfType(channels, self.type)
        others == SelectSeq(SortByPosition(mine), LAMBDA c : c # self)
        moved == InsertAt(others, position, self)
    IN  IF position < 0 \/ position >= Len(mine)
        THEN [exc |-> "InvalidArgument", payload |-> <<>>]
        ELSE [exc |-> None,
              payload |-> <<[i \in 1..Len(moved) |->
                               [id |-> moved[i].id, position |-> i - 1]]>>]

\* a caller awaits channel._move(position), up to the await of the request
Move ==
    /\ mcall.state = "idle"
    /\ \E i \in 1..Len(gchannels), position \in (-1)..Len(gchannels) :
         LET r == move(gchannels, gchannels[i], position) IN
         /\ mcall' = [state |-> IF r.exc = None THEN "awaiting" ELSE "raised",
                      self |-> gchannels[i].id, position |-> position, exc |-> r.exc]
         /\ patched' = patched \o r.payload
    /\ UNCHANGED gchannels
    /\ coreFrame
    /\ UNCHANGED <<offlineVars, msgVars, fillVars, sendVars, editVars>>

\* the request is answered: _move returns
MoveReturns ==
    /\ mcall.state = "awaiting"
    /\ mcall' = [mcall EXCEPT !.state = "returned"]
    /\ UNCHANGED <<gchannels, patched>>
    /\ coreFrame
    /\ UNCHANGED <<offlineVars, msgVars, fillVars, sendVars, editVars>>

MoveIdle ==
    /\ gchannels = <<>>
    /\ mcall = [state |-> "idle", self |-> 0, position |-> 0, exc |-> None]
    /\ patched = <<>>

\* the guilds: up to MaxChannels channels, text or voice, at any positions
MoveInit ==
    /\ \E n \in 1..MaxChannels :
         gchannels \in {[i \in 1..n |-> [id |-> 20 + i, type |-> t[i], position |-> q[i]]] :
                          t \in [1..n -> {"text", "voice"}], q \in [1..n -> 0..(n - 1)]}
    /\ mcall = [state |-> "idle", self |-> 0, position |-> 0, exc |-> None]
    /\ patched = <<>>

\* ------------------------------------------------------------------ Messageable.send

\* Message(channel=self, state=state, data=data): __init__ takes keyword-only
\* state, channel and data, and its second statement reads kwargs, a name
\* that is bound nowhere: every construction ends in NameError
Message_init(data) == [exc |-> "NameError", message |-> None]

\* discord.compat.create_task(delete(), loop=state.loop): the delete
\* coroutine of the call becomes a task of the loop
create_task(scheduled, i) == [exc |-> None, scheduled |-> scheduled \cup {i}]

\* send after the request was answered with data: lines 453-463
send_tail(i, data, delete_after, scheduled) ==
    LET built == Message_init(data)
        made == create_task(scheduled, i)
    IN  IF built.exc # None
        THEN [state |-> "raised", exc |-> built.exc, scheduled |-> scheduled]
        ELSE IF delete_after # <<>> /\ made.exc # None
        THEN [state |-> "raised", exc |-> made.exc, scheduled |-> made.scheduled]
        ELSE [state |-> "returned", exc |-> None,
              scheduled |-> IF delete_after # <<>> THEN made.scheduled ELSE scheduled]

\* delete_after: <<>> for None, <<n>> for a delay of n seconds
DeleteAfter == {<<>>, <<1>>, <<2>>}

\* a caller awaits channel.send(content, delete_after=...), up to the await
\* of http.send_message
Send ==
    /\ Len(sends) < MaxSends
    /\ \A i \in 1..Len(sends) : sends[i].state # "sending"
    /\ \E content \in {"a", "b"}, delete_after \in DeleteAfter :
         sends' = Append(sends, [content |-> content, delete_after |-> delete_after,
                                 state |-> "sending", exc |-> None])
    /\ UNCHANGED stasks
    /\ coreFrame
    /\ UNCHANGED <<offlineVars, msgVars, fillVars, moveVars, editVars>>

\* the request is answered with the data of the message: the rest of send
SendAnswered ==
    /\ \E i \in 1..Len(sends) :
         /\ sends[i].state = "sending"
         /\ LET r == send_tail(i, [content |-> sends[i].content],
                               sends[i].delete_after, stasks) IN
            /\ sends' = [sends EXCEPT ![i].state = r.state, ![i].exc = r.exc]
            /\ stasks' = r.scheduled
    /\ coreFrame
    /\ UNCHANGED <<offlineVars, msgVars, fillVars, moveVars, editVars>>

\* the request fails: HTTPException or Forbidden leaves send
SendFails ==
    /\ \E i \in 1..Len(sends) :
         /\ sends[i].state = "sending"
         /\ sends' = [sends EXCEPT ![i].state = "raised", ![i].exc = "HTTPException"]
    /\ UNCHANGED stasks
    /\ coreFrame
    /\ UNCHANGED <<offlineVars, msgVars, fillVars, moveVars, editVars>>

SendInit ==
    /\ sends = <<>>
    /\ stasks = {}

\* ------------------------------------------------------------------ Message: cached properties, edit, pin, unpin

\* the payloads of the message events and of the answers to edit_message
EventPayloads ==
    [ mentions : {Absent, Key(<<WireId(11)>>)},
      call : {Absent},
      author : {Absent, Key(<<WireId(11)>>)},
      content : {Absent, Key(<<"hi">>), Key(<<"<@11>">>)},
      pinned : {Absent, Key(<<TRUE>>), Key(<<FALSE>>)} ]

\* raw_mentions: re.findall(r'<@!?([0-9]+)>', self.content) as ints
raw_mentions(m) == IF m.content = "<@11>" THEN <<11>> ELSE <<>>

\* clean_content: a mention of a user of self.mentions becomes '@' + name,
\* any other text stays
clean_content(m) ==
    IF m.content = "<@11>" /\ \E i \in 1..Len(m.mentions) : m.mentions[i].id = 11
    THEN "@u11" ELSE m.content

Slots == {"_cs_raw_mentions", "_cs_clean_content"}
Computed(m, slot) ==
    IF slot = "_cs_raw_mentions" THEN <<raw_mentions(m)>> ELSE <<clean_content(m)>>

\* utils.cached_slot_property: the slot if it is set, else the function's
\* value, which is then stored in the slot
cached_slot_property(m, cache, slot) ==
    IF cache[slot].present
    THEN [value |-> cache[slot].value, cache |-> cache]
    ELSE [value |-> Computed(m, slot),
          cache |-> [cache EXCEPT ![slot] = Key(Computed(m, slot))]]

\* the end of _update: delattr of every slot whose name starts with _cs_
clear_cached_none(cache) == cache
clear_cached(cache) == [slot \in DOMAIN cache |-> Absent]

\* _update with its last loop: [message, cache, exc]
update_cached(m, cache, data) ==
    LET r == update(m, data) IN
    [message |-> r.message, exc |-> r.exc,
     cache |-> IF r.exc = None THEN clear_cached(cache) ELSE cache]

\* the fields _try_patch writes, as values of the last payload that had them
LastPatched(last, data) ==
    [f \in DOMAIN last |-> IF data[f].present THEN data[f] ELSE last[f]]

NoRequest == [op |-> "none", content |-> "", state |-> "none"]

\* a message event of the gateway: message._update(channel, data) on new data
UpdateEvent ==
    /\ ecount < MaxPatches
    /\ \E data \in EventPayloads :
         LET r == update_cached(emsg, ecache, data) IN
         /\ emsg' = r.message
         /\ ecache' = r.cache
         /\ elast' = LastPatched(elast, data)
         /\ edata' = data
    /\ ecount' = ecount + 1
    /\ UNCHANGED <<ereq, eread>>
    /\ coreFrame
    /\ UNCHANGED <<offlineVars, msgVars, fillVars, moveVars, sendVars>>

\* a read of message.raw_mentions or message.clean_content
ReadCached ==
    /\ \E slot \in Slots :
         LET r == cached_slot_property(emsg, ecache, slot) IN
         /\ ecache' = r.cache
         /\ eread' = [prop |-> slot, value |-> r.value]
    /\ UNCHANGED <<emsg, elast, ereq, edata, ecount>>
    /\ coreFrame
    /\ UNCHANGED <<offlineVars, msgVars, fillVars, moveVars, sendVars>>

\* edit(content=...), pin() or unpin() up to the await of its request
MessageRequest ==
    /\ ereq.state # "awaiting"
    /\ \/ \E content \in {"hi", "<@11>"} :
            ereq' = [op |-> "edit", content |-> content, state |-> "awaiting"]
       \/ ereq' = [op |-> "pin", content |-> "", state |-> "awaiting"]
       \/ ereq' = [op |-> "unpin", content |-> "", state |-> "awaiting"]
    /\ UNCHANGED <<emsg, ecache, elast, eread, edata, ecount>>
    /\ coreFrame
    /\ UNCHANGED <<offlineVars, msgVars, fillVars, moveVars, sendVars>>

\* self.pinned = True / self.pinned = False after the request
set_pinned_always(m, op) == [m EXCEPT !.pinned = TRUE]
set_pinned(m, op) == [m EXCEPT !.pinned = (op = "pin")]

\* the request of pin or unpin is answered
PinDone ==
    /\ ereq.state = "awaiting"
    /\ ereq.op \in {"pin", "unpin"}
    /\ emsg' = set_pinned(emsg, ereq.op)
    /\ ereq' = [ereq EXCEPT !.state = "returned"]
    /\ UNCHANGED <<ecache, elast, eread, edata, ecount>>
    /\ coreFrame
    /\ UNCHANGED <<offlineVars, msgVars, fillVars, moveVars, sendVars>>

\* edit_message is answered with the data of the edited message:
\* self._update(channel=self.channel, data=data)
EditDone ==
    /\ ereq.state = "awaiting"
    /\ ereq.op = "edit"
    /\ ecount < MaxPatches
    /\ \E data \in EventPayloads :
         /\ data.content = Key(<<ereq.content>>)
         /\ LET r == update_cached(emsg, ecache, data) IN
            /\ emsg' = r.message
            /\ ecache' = r.cache
            /\ elast' = LastPatched(elast, data)
         /\ edata' = data
    /\ ecount' = ecount + 1
    /\ ereq' = [ereq EXCEPT !.state = "returned"]
    /\ UNCHANGED eread
    /\ coreFrame
    /\ UNCHANGED <<offlineVars, msgVars, fillVars, moveVars, sendVars>>

\* the request fails (Forbidden, HTTPException): the call raises
MessageRequestFails ==
    /\ ereq.state = "awaiting"
    /\ ereq' = [ereq EXCEPT !.state = "raised"]
    /\ UNCHANGED <<emsg, ecache, elast, eread, edata, ecount>>
    /\ coreFrame
    /\ UNCHANGED <<offlineVars, msgVars, fillVars, moveVars, sendVars>>

NoRead == [prop |-> "none", value |-> <<>>]
NoData ==
    [mentions |-> Absent, call |-> Absent, author |-> Absent, content |-> Absent,
     pinned |-> Absent]

EditIdle ==
    /\ emsg = [type |-> "default", author |-> User(10), mentions |-> <<>>,
               guild |-> NoGuild, call |-> Null, content |-> "", pinned |-> FALSE]
    /\ ecache = [slot \in Slots |-> Absent]
    /\ elast = [author |-> Absent, content |-> Absent]
    /\ ereq = NoRequest
    /\ eread = NoRead
    /\ edata = NoData
    /\ ecount = 0

\* a message as _update left it, no cached property read yet
EditInit ==
    /\ emsg \in [ type : {"default"}, author : {User(10)}, mentions : {<<>>, <<User(11)>>},
                  guild : {NoGuild, {11}}, call : {Null}, content : {"hi", "<@11>"},
                  pinned : BOOLEAN ]
    /\ ecache = [slot \in Slots |-> Absent]
    /\ elast = [author |-> Absent, content |-> Absent]
    /\ ereq = NoRequest
    /\ eread = NoRead
    /\ edata = NoData
    /\ ecount = 0

OfflineIdle ==
    /\ guild_flags = [g \in OfflineGuilds |-> [large |-> FALSE, unavailable |-> FALSE]]
    /\ rcall = [state |-> "idle", guilds |-> <<>>, exc |-> None]
    /\ ws_sent = <<>>

OfflineInit ==
    /\ guild_flags \in [OfflineGuilds -> [large : BOOLEAN, unavailable : BOOLEAN]]
    /\ rcall = [state |-> "idle", guilds |-> <<>>, exc |-> None]
    /\ ws_sent = <<>>

OpsIdle == OfflineIdle /\ MsgIdle /\ FillIdle /\ MoveIdle /\ SendInit /\ EditIdle

PermInit ==
    /\ default_role \in DefaultPermChoices
    /\ role_perms \in [RoleIds -> RolePermChoices]
    /\ member_id \in MemberIds
    \* member.roles always holds the @everyone role
    /\ member_roles \in {{GuildId} \cup r : r \in SUBSET RoleIds}
    /\ channel_id \in ChannelIds
    /\ channel_type \in {"text", "voice"}
    /\ overwrites \in SeqsUpTo(Overwrites, MaxOverwrites)
    /\ result = NoResult

PermIdle ==
    /\ default_role = {}
    /\ role_perms = [r \in RoleIds |-> {}]
    /\ member_id = OwnerId
    /\ member_roles = {}
    /\ channel_id = GuildId
    /\ channel_type = "text"
    /\ overwrites = <<>>
    /\ result = NoResult

ConnIdle ==
    /\ pc = "start"
    /\ ws = 0
    /\ sockets = <<>>
    /\ closed = FALSE
    /\ is_ready = FALSE
    /\ e = NoException
    /\ closePc = [c \in Callers |-> "idle"]
    /\ closeTarget = [c \in Callers |-> 0]
    /\ closeVoices = [c \in Callers |-> {}]
    /\ voice_clients = {}
    /\ userCloses = 0

\* ------------------------------------------------------------------ specifications

InitConnect == ConnInit /\ PermIdle /\ WaitInit /\ BulkInit /\ DispIdle /\ OpsIdle

NextConnect ==
    \/ ConnectStart
    \/ FromClientReturn
    \/ PollDispatch
    \/ PollClose
    \/ PollReconnectRequest
    \/ UserClose
    \/ \E c \in Callers : CloseVoice(c)
    \/ \E c \in Callers : CloseWs(c)
    \/ \E c \in Callers : CloseHttp(c)


SpecConnect == InitConnect /\ [][NextConnect]_vars

\* awaited close steps (voice.disconnect, ws.close, http.close) complete
FairSpecConnect ==
    /\ SpecConnect
    /\ \A c \in Callers : WF_vars(CloseVoice(c) \/ CloseWs(c) \/ CloseHttp(c))

InitPerm == PermInit /\ ConnIdle /\ WaitInit /\ BulkInit /\ DispIdle /\ OpsIdle

NextPerm == PermissionsFor

SpecPerm == InitPerm /\ [][NextPerm]_vars

InitWait == WaitInit /\ ConnIdle /\ PermIdle /\ BulkInit /\ DispIdle /\ OpsIdle

NextWait ==
    \/ WaitForMessage
    \/ WaitForReaction
    \/ TimerFires
    \/ ResumeDone
    \/ ResumeTimeout
    \/ CancelWaiter
    \/ HandleMessage
    \/ HandleReactionAdd

SpecWait == InitWait /\ [][NextWait]_vars

InitBulk == BulkInit /\ ConnIdle /\ PermIdle /\ WaitInit /\ DispIdle /\ OpsIdle

NextDelete ==
    \/ DeleteMessages
    \/ DeleteMessagesDone
    \/ DeleteMessagesFails

SpecDelete == InitBulk /\ [][NextDelete]_vars

NextPurge ==
    \/ Purge
    \/ PurgeGetMessage
    \/ PurgeFlushDone
    \/ PurgeExhausted
    \/ PurgeFinalDone
    \/ PurgeRequestFails

SpecPurge == InitBulk /\ [][NextPurge]_vars

\* the coroutine is run on; the history iterator and the HTTP client answer
FairSpecPurge ==
    /\ SpecPurge
    /\ WF_vars(PurgeGetMessage \/ PurgeExhausted)
    /\ WF_vars(PurgeFlushDone \/ PurgeFinalDone \/ PurgeRequestFails)

CoreIdle == ConnIdle /\ PermIdle /\ WaitInit /\ BulkInit /\ DispIdle

InitDispatch == DispInit /\ ConnIdle /\ PermIdle /\ WaitInit /\ BulkInit /\ OpsIdle

NextDispatch ==
    \/ Dispatch
    \/ RunEvent
    \/ OnErrorEnds

SpecDispatch == InitDispatch /\ [][NextDispatch]_vars

InitOffline == OfflineInit /\ CoreIdle /\ MsgIdle /\ FillIdle /\ MoveIdle /\ SendInit /\ EditIdle

NextOffline ==
    \/ RequestOfflineMembers
    \/ RequestOfflineReturns

SpecOffline == InitOffline /\ [][NextOffline]_vars

InitMessage == MsgInit /\ CoreIdle /\ OfflineIdle /\ FillIdle /\ MoveIdle /\ SendInit /\ EditIdle

NextMessage == Update

SpecMessage == InitMessage /\ [][NextMessage]_vars

InitFill == FillInit /\ CoreIdle /\ OfflineIdle /\ MsgIdle /\ MoveIdle /\ SendInit /\ EditIdle

NextFill == FillOverwrites

SpecFill == InitFill /\ [][NextFill]_vars

InitMove == MoveInit /\ CoreIdle /\ OfflineIdle /\ MsgIdle /\ FillIdle /\ SendInit /\ EditIdle

NextMove ==
    \/ Move
    \/ MoveReturns

SpecMove == InitMove /\ [][NextMove]_vars

InitSend == SendInit /\ CoreIdle /\ OfflineIdle /\ MsgIdle /\ FillIdle /\ MoveIdle /\ EditIdle

NextSend ==
    \/ Send
    \/ SendAnswered
    \/ SendFails

SpecSend == InitSend /\ [][NextSend]_vars

InitEdit == EditInit /\ CoreIdle /\ OfflineIdle /\ MsgIdle /\ FillIdle /\ MoveIdle /\ SendInit

NextEdit ==
    \/ UpdateEvent
    \/ ReadCached
    \/ MessageRequest
    \/ PinDone
    \/ EditDone
    \/ MessageRequestFails

SpecEdit == InitEdit /\ [][NextEdit]_vars

\* ------------------------------------------------------------------ claims: connect

NewSocket == sockets'[Len(sockets')]
Fatal(exc) == exc.type = "ConnectionClosed" /\ exc.code # NormalClosure

\* C1: when poll_event ends with ResumeWebSocket while the current socket holds
\* session id S and sequence N, the next socket is opened with resume = TRUE,
\* session S and sequence N, and no other socket is opened in that step.
C1_ResumeCarriesSessionAndSequence ==
    [][ (pc = "poll" /\ pc' = "reconnecting" /\ e'.type = "ResumeWebSocket") =>
          /\ Len(sockets') = Len(sockets) + 1
          /\ NewSocket.resume
          /\ NewSocket.session_id = sockets[ws].session_id
          /\ NewSocket.sequence = sockets[ws].sequence ]_vars

\* a resume connection is being opened with a session id and a sequence number
\* that were received on the previous connection
C1_Witness ==
    /\ pc = "reconnecting"
    /\ e.type = "ResumeWebSocket"
    /\ sockets[Len(sockets)].resume
    /\ sockets[Len(sockets)].session_id = "abc"
    /\ sockets[Len(sockets)].sequence = 2
    /\ sockets[ws].session_id = "abc"

\* C2: once poll_event raised ConnectionClosed with code 1000, connect opens no
\* further socket, polls no further event and does not raise: it only runs
\* close() and, the awaited close steps completing, returns.
C2_NormalClosureEndsLoop ==
    /\ [][ (e.type = "ConnectionClosed" /\ e.code = NormalClosure) =>
              /\ sockets' = sockets
              /\ ws' = ws
              /\ pc' \in {"closing", "done"}
              /\ (pc = "done" => pc' = "done")
              /\ (pc' = "done" => closed') ]_vars
    /\ (e.type = "ConnectionClosed" /\ e.code = NormalClosure) ~> (pc = "done")

\* connect has returned after a normal closure of a session that was ready
C2_Witness ==
    /\ pc = "done"
    /\ e.type = "ConnectionClosed" /\ e.code = NormalClosure
    /\ sockets[ws].session_id # NoSession
    /\ Len(sockets) = 2

\* the socket of the current connection holds a session id and a sequence number
Held == ws # 0 /\ sockets[ws].session_id # NoSession /\ sockets[ws].sequence # NoSequence

\* C3 as stated: whenever poll_event fails because the socket was closed with a
\* code other than the normal-shutdown code while a session id and a sequence
\* number are held, the client opens a resume connection.
C3_Original ==
    [][ (pc = "poll" /\ Held /\ e' # e /\ e'.code # NormalClosure
         /\ e'.type \in {"ConnectionClosed", "ResumeWebSocket"}) =>
          /\ pc' = "reconnecting"
          /\ NewSocket.resume ]_vars

\* C3 (amended): an abnormal closure that poll_event signals as ResumeWebSocket
\* while a session id and a sequence number are held opens a resume connection
\* carrying them; an abnormal closure that reaches connect as ConnectionClosed
\* (code other than 1000) opens no connection: the client is closed and connect
\* ends by raising.
C3_AbnormalClosure ==
    [][ /\ (pc = "poll" /\ Held /\ e' # e /\ e'.code # NormalClosure
            /\ e'.type = "ResumeWebSocket") =>
              /\ pc' = "reconnecting"
              /\ Len(sockets') = Len(sockets) + 1
              /\ NewSocket.resume
              /\ NewSocket.session_id = sockets[ws].session_id
              /\ NewSocket.sequence = sockets[ws].sequence
        /\ (pc = "poll" /\ Held /\ e' # e /\ Fatal(e')) =>
              /\ pc' \in {"closing", "raised"}
              /\ Len(sockets') = Len(sockets)
        /\ (pc \in {"closing", "raised"} /\ Fatal(e)) =>
              /\ pc' \in {"closing", "raised"}
              /\ sockets' = sockets ]_vars

\* both cases happened: a resume after a drop, then a fatal closure that ended
\* the session while a session id and a sequence number were held
C3_Witness ==
    /\ pc = "raised"
    /\ Fatal(e)
    /\ Held
    /\ sockets[ws].resume

HoldsAdministrator ==
    \/ administrator \in default_role
    \/ \E r \in member_roles \cap RoleIds : administrator \in role_perms[r]

\* some overwrite of the channel that applies to the member denies a bit
DeniedByOverwrite ==
    \E i \in 1..Len(overwrites) :
        /\ overwrites[i].deny # {}
        /\ \/ overwrites[i].type = "member" /\ overwrites[i].id = member_id
           \/ overwrites[i].type = "role" /\ overwrites[i].id \in member_roles

\* C5: if the OR of the @everyone permissions and the permissions of the
\* member's roles has the administrator bit, permissions_for returns
\* Permissions.all(), whatever the overwrites of the channel deny.
C5_AdministratorGetsAll ==
    (result.called /\ HoldsAdministrator) => result.value = Permissions_all

\* an administrator who is not the owner, resolved in a channel whose
\* overwrites deny bits to the member and to one of its roles
C5_Witness ==
    /\ result.called
    /\ HoldsAdministrator
    /\ member_id # OwnerId
    /\ \E i \in 1..Len(overwrites) :
          overwrites[i].type = "member" /\ overwrites[i].id = member_id
            /\ read_messages \in overwrites[i].deny
    /\ \E i \in 1..Len(overwrites) :
          overwrites[i].type = "role" /\ overwrites[i].id \in member_roles
            /\ send_messages \in overwrites[i].deny

\* C6: if the member is the guild owner, permissions_for returns
\* Permissions.all(), whatever its roles and the overwrites of the channel.
C6_OwnerGetsAll ==
    (result.called /\ member_id = OwnerId) => result.value = Permissions_all

\* the owner without any administrator role, in a channel with a denying overwrite
C6_Witness ==
    /\ result.called
    /\ member_id = OwnerId
    /\ ~HoldsAdministrator
    /\ default_role = {}
    /\ DeniedByOverwrite

\* C7: in every result of permissions_for, if the read_messages bit is off
\* then every bit of Permissions.all_channel() is off.
C7_NoReadNoChannelBits ==
    (result.called /\ read_messages \notin result.value) =>
        result.value \cap Permissions_all_channel = {}

\* read_messages was denied to a member whose roles grant other channel bits
C7_Witness ==
    /\ result.called
    /\ read_messages \notin result.value
    /\ member_id # OwnerId
    /\ send_messages \in default_role
    /\ connect \in default_role
    /\ channel_type = "voice"
    /\ kick_members \in result.value

NeverMatched(w) ==
    \A i \in 1..Len(dispatched) :
        dispatched[i].type = wparams[w].type =>
            condition(wparams[w], dispatched[i]) = "False"

\* the waiter ids of the entries of _listeners
Listed == {listeners[i] : i \in 1..Len(listeners)}

\* C9: a wait_for_message or wait_for_reaction call with a timeout whose
\* predicate matched no dispatched event and whose task was not cancelled
\* returns None, and no call ever ends with TimeoutError.
C9_TimeoutReturnsNone ==
    \A w \in Waiters :
        /\ wret[w].exc # "TimeoutError"
        /\ (wpc[w] = "returned" /\ wparams[w].timeout /\ NeverMatched(w)
              /\ wret[w].exc # "CancelledError") => wret[w] = Return(0)

\* a message waiter and a reaction waiter both timed out to None although an
\* event of their type was dispatched to them
C9_Witness ==
    /\ wpc = [w \in Waiters |-> "returned"]
    /\ \E w \in Waiters : wparams[w].type = "message" /\ wret[w] = Return(0)
                            /\ NeverMatched(w) /\ wparams[w].check = "false"
    /\ \E w \in Waiters : wparams[w].type = "reaction" /\ wret[w] = Return(0)
                            /\ NeverMatched(w) /\ wparams[w].check = "false"
    /\ \E i \in 1..Len(dispatched) : dispatched[i].type = "message"
    /\ \E i \in 1..Len(dispatched) : dispatched[i].type = "reaction"

C11_FirstMatchResolves ==
    [][ \A w \in Waiters : wparams[w].type = "message" =>
          /\ (/\ fut[w].state = "pending"
              /\ Len(dispatched') > Len(dispatched)
              /\ dispatched'[Len(dispatched')].type = "message") =>
                LET n == Len(dispatched')
                    holds == predicate_message(wparams[w], dispatched'[n])
                IN  /\ holds = "True" => fut'[w] = [state |-> "result", value |-> n]
                    /\ holds = "False" => fut'[w] = fut[w]
          /\ fut[w].state = "result" => fut'[w] = fut[w]
          /\ (fut'[w].state = "result" /\ fut[w].state # "result") =>
                /\ fut[w].state = "pending"
                /\ fut'[w].value = Len(dispatched')
                /\ Len(dispatched') > Len(dispatched)
          /\ (wret'[w] # wret[w] /\ fut[w].state = "result") =>
                wret'[w] = Return(fut[w].value)
          /\ (wret'[w].kind = "return" /\ wret'[w].value # 0) =>
                /\ fut'[w] = [state |-> "result", value |-> wret'[w].value]
                /\ dispatched'[wret'[w].value].type = "message"
                /\ predicate_message(wparams[w], dispatched'[wret'[w].value]) = "True"
      ]_vars

\* a wait_for_message call returned the second dispatched event after the
\* first one, a message too, failed its requirements
C11_Witness ==
    \E w \in Waiters :
        /\ wparams[w].type = "message"
        /\ wpc[w] = "returned"
        /\ wret[w] = Return(2)
        /\ dispatched[1].type = "message"
        /\ predicate_message(wparams[w], dispatched[1]) = "False"
        /\ wparams[w].author # None

\* C12: when the check of a registration raises while a dispatched event is
\* evaluated, its future takes the exception, which the waiting call raises,
\* the registration is removed from _listeners, and the registrations after
\* it in the list are still evaluated against the same event.
C12_CheckRaisePropagates ==
    [][ /\ Len(dispatched') > Len(dispatched) =>
            LET n == Len(dispatched')
                ev == dispatched'[n]
                live(i) == /\ wparams[listeners[i]].type = ev.type
                           /\ fut[listeners[i]].state = "pending"
                raises(i) == live(i) /\ condition(wparams[listeners[i]], ev) = "raise"
            IN  \A i \in 1..Len(listeners) :
                  LET w == listeners[i]
                      after == \E j \in 1..(i - 1) : raises(j)
                  IN  /\ raises(i) =>
                            /\ fut'[w] = [state |-> "exception", value |-> n]
                            /\ \A k \in 1..Len(listeners') : listeners'[k] # w
                      /\ (after /\ live(i) /\ condition(wparams[w], ev) = "True") =>
                            /\ fut'[w] = [state |-> "result", value |-> n]
                            /\ \A k \in 1..Len(listeners') : listeners'[k] # w
                      /\ (after /\ live(i) /\ condition(wparams[w], ev) = "False") =>
                            /\ fut'[w] = fut[w]
                            /\ \E k \in 1..Len(listeners') : listeners'[k] = w
        /\ \A w \in Waiters :
              (wret'[w] # wret[w] /\ fut[w].state = "exception") =>
                  wret'[w] = Raise("CheckError")
      ]_vars

\* one event made the check of the first registration raise and resolved the
\* registration behind it; the first call has raised the exception of its check
C12_Witness ==
    \E w, v \in Waiters :
        /\ w < v
        /\ fut[w].state = "exception"
        /\ fut[v] = [state |-> "result", value |-> fut[w].value]
        /\ wret[w] = Raise("CheckError")
        /\ Listed = {}

\* ------------------------------------------------------------------ claims: delete_messages / purge

\* the ids of a list of messages, position by position
IdsOf(messages) == [i \in 1..Len(messages) |-> messages[i].id]

\* C13: a delete_messages call with fewer than 2 or more than 100 messages
\* fails with ClientException and no delete request is issued.
C13_OutOfRangeFailsFast ==
    (dcall.state # "idle" /\ (Len(dcall.messages) < 2 \/ Len(dcall.messages) > 100)) =>
        /\ dcall.state = "raised"
        /\ dcall.exc = "ClientException"
        /\ requests = <<>>

\* a call with 101 messages has failed
C13_Witness ==
    /\ Len(dcall.messages) = 101
    /\ dcall.state = "raised"
    /\ requests = <<>>

\* C14 as stated: a delete_messages call with a list of exactly 1 message
\* issues a single-message delete request for that message.
C14_Original ==
    (dcall.state # "idle" /\ Len(dcall.messages) = 1) =>
        requests = <<[kind |-> "single", ids |-> <<dcall.messages[1].id>>]>>

\* C14 (amended): a delete_messages call with a list of exactly 1 message
\* fails with ClientException and issues no request, neither a bulk delete
\* nor a single-message delete.
C14_SingleMessageFails ==
    (dcall.state # "idle" /\ Len(dcall.messages) = 1) =>
        /\ dcall = [state |-> "raised", messages |-> dcall.messages,
                    exc |-> "ClientException"]
        /\ requests = <<>>

\* a call with one message has failed
C14_Witness ==
    /\ Len(dcall.messages) = 1
    /\ dcall.state = "raised"
    /\ dcall.exc = "ClientException"

\* C15: a delete_messages call with n messages, 2 <= n <= 100, issues exactly
\* one bulk-delete request, which carries the ids of those n messages in the
\* order given.
C15_OneBulkRequestInOrder ==
    (dcall.state # "idle" /\ Len(dcall.messages) >= 2 /\ Len(dcall.messages) <= 100) =>
        /\ requests = <<[kind |-> "bulk", ids |-> IdsOf(dcall.messages)]>>
        /\ dcall.exc \in {None, "HTTPException"}

\* a call with 100 messages, oldest first, has returned
C15_Witness ==
    /\ Len(dcall.messages) = 100
    /\ dcall.messages[1].id < dcall.messages[2].id
    /\ dcall.state = "returned"
    /\ Len(requests) = 1

\* the messages purge holds for the next delete request
Pending == SubSeq(ret, Len(ret) - count + 1, Len(ret))

\* C16: in purge the pending count never exceeds 100; when it is 100 and the
\* iterator yields another message, a bulk delete of exactly the 100 pending
\* messages is issued before that message is considered, and no match is added
\* to a full queue; no bulk delete of purge carries fewer than 2 or more than
\* 100 ids, and delete_messages never refuses a batch of purge.
C16_FlushAtHundred ==
    [][ /\ count' <= 100
        /\ (count = 100 /\ yielded' > yielded) =>
              /\ requests' = Append(requests, [kind |-> "bulk", ids |-> IdsOf(Pending)])
              /\ ret' = ret
              /\ Len(Pending) = 100
        /\ Len(ret') > Len(ret) => (count < 100 \/ ppc = "flush")
        /\ ppc = "flush" =>
              /\ requests[Len(requests)].kind = "bulk"
              /\ Len(requests[Len(requests)].ids) = 100
        /\ pexc' # "ClientException"
        /\ \A i \in 1..Len(requests') :
              requests'[i].kind = "bulk" =>
                  Len(requests'[i].ids) >= 2 /\ Len(requests'[i].ids) <= 100
      ]_vars

\* a full queue was flushed and the message that arrived was added after it
C16_Witness ==
    /\ Len(ret) = 101
    /\ count = 1
    /\ Len(requests) = 1
    /\ Len(requests[1].ids) = 100
    /\ ppc = "get"

\* C17: when the iterator is exhausted, purge issues exactly one bulk delete
\* of exactly the pending messages if 2 or more are pending, one
\* single-message delete if exactly 1 is pending, and no request if none is;
\* no request follows it.
C17_FinalFlush ==
    [][ /\ (ppc = "get" /\ ppc' # "get" /\ yielded' = yielded) =>
              /\ count >= 2 =>
                    /\ requests' = Append(requests, [kind |-> "bulk", ids |-> IdsOf(Pending)])
                    /\ ppc' = "final"
              /\ count = 1 =>
                    /\ requests' = Append(requests,
                                      [kind |-> "single", ids |-> <<ret[Len(ret)].id>>])
                    /\ ppc' = "final"
              /\ count = 0 =>
                    /\ requests' = requests
                    /\ ppc' = "returned"
        /\ ppc \in {"final", "returned", "raised"} => requests' = requests
      ]_vars

\* after one flush of a full queue a single message was left at exhaustion
C17_Witness ==
    /\ ppc = "returned"
    /\ Len(requests) = 2
    /\ requests[1].kind = "bulk"
    /\ requests[2] = [kind |-> "single", ids |-> <<ret[101].id>>]

\* the messages among the first n of the history that satisfy the check
Matched(n) ==
    SelectSeq([i \in 1..n |-> Message(i)], LAMBDA m : check(pcheck, m))

\* the ids of the first n delete requests, in order
RECURSIVE Submitted(_)
Submitted(n) ==
    IF n = 0 THEN <<>> ELSE Submitted(n - 1) \o requests[n].ids

\* C18: when purge returns, its list is exactly the yielded messages that
\* satisfy the check, in the order yielded, and the delete requests carry the
\* ids of exactly these messages, each once; at no time is a message submitted
\* twice or out of order.
C18_ReturnsExactlyTheMatches ==
    /\ Len(Submitted(Len(requests))) <= Len(ret)
    /\ Submitted(Len(requests)) = IdsOf(SubSeq(ret, 1, Len(Submitted(Len(requests)))))
    /\ \A i, j \in 1..Len(ret) : i < j => ret[i].id # ret[j].id
    /\ ppc = "returned" =>
          /\ ret = Matched(yielded)
          /\ Submitted(Len(requests)) = IdsOf(ret)

\* purge returned more than 100 messages, deleted in two requests, and passed
\* over messages that failed the check
C18_Witness ==
    /\ ppc = "returned"
    /\ Len(ret) > 100
    /\ Len(ret) < yielded
    /\ Len(requests) = 2

\* C19: with a history that yields finitely many messages, a purge call ends:
\* it returns, unless a delete request failed and its exception leaves the
\* call. NoMoreMessages never leaves purge.
C19_PurgeTerminates ==
    /\ (ppc = "get") ~> (ppc = "returned" \/ (ppc = "raised" /\ pexc = "HTTPException"))
    /\ [](pexc # "NoMoreMessages")
    /\ [](ppc = "raised" => pexc = "HTTPException")

\* purge returned after the whole history, two flushes and a last bulk delete
C19_Witness ==
    /\ ppc = "returned"
    /\ yielded = MaxHistory
    /\ Len(requests) = 3

\* ------------------------------------------------------------------ claims: dispatch

\* C20: an exception raised inside an on_<event> handler is reported through
\* on_error with the event name and the arguments of that dispatch, at the
\* moment it is raised, and is not the exception its task ends with; it does
\* not touch the other tasks or the dispatch log, and the next event can be
\* dispatched whatever the handlers did.
C20_HandlerErrorGoesToOnError ==
    /\ [][ \A t \in 1..Len(tasks) :
              /\ tasks'[t].exc # "HandlerError"
              /\ (tasks[t].state = "scheduled" /\ tasks'[t].handler = "HandlerError") =>
                    /\ tasks'[t].state = "on_error"
                    /\ errors' = Append(errors, [event_method |-> tasks[t].event_name,
                                                 args |-> tasks[t].args, task |-> t])
                    /\ \E i \in 1..Len(dlog) :
                          /\ tasks[t].event_name = <<"on_", dlog[i].event>>
                          /\ tasks[t].args = dlog[i].args
                    /\ dlog' = dlog
                    /\ \A u \in 1..Len(tasks) : u # t => tasks'[u] = tasks[u]
              /\ (tasks[t].state = "scheduled" /\ tasks'[t].handler \in {"ok", "CancelledError"}) =>
                    /\ errors' = errors
                    /\ tasks'[t].state = "done"
      ]_vars
    /\ [](Len(dlog) < MaxDispatches => ENABLED Dispatch)

\* the handler of the first event raised and was reported; the second event
\* was dispatched afterwards and its handler ran to its end
C20_Witness ==
    /\ Len(tasks) = 2
    /\ tasks[1].state = "done"
    /\ tasks[2].state = "done"
    /\ errors = <<[event_method |-> tasks[1].event_name, args |-> tasks[1].args, task |-> 1]>>
    /\ tasks[1].event_name # tasks[2].event_name
    /\ tasks[1].handler = "HandlerError"
    /\ tasks[1].exc = None
    /\ tasks[2].handler = "ok"

\* ------------------------------------------------------------------ claims: request_offline_members

\* C21: a request_offline_members call that is passed a guild which is not
\* large or is unavailable raises InvalidArgument and sends nothing; a call
\* whose guilds are all large and available sends exactly one member-chunk
\* request, for those guilds.
C21_OfflineRequestGuard ==
    rcall.state # "idle" =>
        IF \A i \in 1..Len(rcall.guilds) :
               guild_flags[rcall.guilds[i]] = [large |-> TRUE, unavailable |-> FALSE]
        THEN /\ rcall.exc = None
             /\ Len(ws_sent) = 1
             /\ ws_sent[1].op = 8
             /\ ws_sent[1].guild_id = rcall.guilds
        ELSE /\ rcall.state = "raised"
             /\ rcall.exc = "InvalidArgument"
             /\ ws_sent = <<>>

\* a call with a large available guild and a large unavailable one was rejected
C21_Witness ==
    /\ rcall.state = "raised"
    /\ Len(rcall.guilds) = 2
    /\ guild_flags[rcall.guilds[1]] = [large |-> TRUE, unavailable |-> FALSE]
    /\ guild_flags[rcall.guilds[2]] = [large |-> TRUE, unavailable |-> TRUE]
    /\ ws_sent = <<>>

\* ------------------------------------------------------------------ claims: Message._update

\* C22 as stated: applying the same payload object to a message twice
\* succeeds both times and leaves the message as one application left it,
\* also for payloads with a 'call' key.
C22_UpdateTwice ==
    \A i \in 1..Len(mlog) :
        /\ mlog[i].exc = None
        /\ mlog[i].message = mlog[1].message

\* ------------------------------------------------------------------ claims: _fill_overwrites

\* C23 as stated: handing the same channel payload to _fill_overwrites twice
\* succeeds both times and yields the overwrite list of one application, and
\* the payload is as it was passed the first time.
C23_FillTwice ==
    \A i \in 1..Len(flog) :
        /\ flog[i].exc = None
        /\ flog[i].overwrites = flog[1].overwrites
        /\ ow_data = flog[1].data

\* how often x is an element of the list l
Count(l, x) == Cardinality({i \in 1..Len(l) : l[i] = x})

\* C25: after _fill_overwrites has run on a payload, whatever the order of its
\* overwrites: if the payload has a role overwrite whose id is the guild id,
\* such an overwrite is the first element of the channel's list, and the list
\* is a permutation of the overwrites of the payload.
C25_EveryoneFirst ==
    \A i \in 1..Len(flog) : flog[i].exc = None =>
        LET given == [k \in 1..Len(flog[i].data) |->
                        [id |-> flog[i].data[k].id, type |-> flog[i].data[k].type,
                         allow |-> flog[i].data[k].allow, deny |-> flog[i].data[k].deny]]
            stored == flog[i].overwrites
        IN  /\ Len(stored) = Len(given)
            /\ \A k \in 1..Len(given) : Count(stored, given[k]) = Count(given, given[k])
            /\ (\E k \in 1..Len(given) : given[k].type = "role" /\ given[k].id = GuildId) =>
                  (stored[1].type = "role" /\ stored[1].id = GuildId)
            /\ (i = Len(flog)) => overwrites = stored

\* a payload whose last overwrite is the one of the everyone role, behind the
\* overwrite of another role: the two were swapped
C25_Witness ==
    /\ Len(flog) = 1
    /\ flog[1].exc = None
    /\ Len(overwrites) = 2
    /\ flog[1].data[2].id = GuildId
    /\ flog[1].data[1].id = 2
    /\ overwrites[1].id = GuildId
    /\ overwrites[2].id = 2

\* ------------------------------------------------------------------ claims: _move

\* the channel of the guild with this id
ChannelOf(id) == gchannels[CHOOSE i \in 1..Len(gchannels) : gchannels[i].id = id]

\* C24: for a channel C and a target position p with 0 <= p < n, n the number
\* of channels of C's type in the guild, _move sends one payload that lists
\* exactly the channels of that type, gives them the positions 0..n-1 in list
\* order, has C at position p, and keeps the other channels in the order of
\* their previous positions.
C24_MoveContiguous ==
    LET c == ChannelOf(mcall.self)
        same == {i \in 1..Len(gchannels) : gchannels[i].type = c.type}
        n == Cardinality(same)
    IN  (mcall.state # "idle" /\ mcall.position >= 0 /\ mcall.position < n) =>
            /\ mcall.exc = None
            /\ Len(patched) = 1
            /\ Len(patched[1]) = n
            /\ \A k \in 1..n : patched[1][k].position = k - 1
            /\ {patched[1][k].id : k \in 1..n} = {gchannels[i].id : i \in same}
            /\ patched[1][mcall.position + 1].id = c.id
            /\ \A j, k \in 1..n :
                  (j < k /\ patched[1][j].id # c.id /\ patched[1][k].id # c.id) =>
                      ChannelOf(patched[1][j].id).position
                          <= ChannelOf(patched[1][k].id).position

\* the last of three channels of one type, with distinct positions, was moved
\* to the front
C24_Witness ==
    /\ mcall.state = "returned"
    /\ Len(gchannels) = 3
    /\ \A i \in 1..3 : gchannels[i].type = "text"
    /\ gchannels[1].position = 1 /\ gchannels[2].position = 0 /\ gchannels[3].position = 2
    /\ mcall.self = gchannels[3].id
    /\ mcall.position = 0
    /\ Len(patched) = 1

\* ------------------------------------------------------------------ claims: send

\* C26: a send with delete_after=N whose request was answered returns the sent
\* message without waiting for the deletion, and has handed the delayed delete
\* to a task of its own, whose failure reaches nobody.
C26_SendReturnsBeforeDelete ==
    \A i \in 1..Len(sends) :
        (sends[i].delete_after # <<>> /\ sends[i].state # "sending"
            /\ sends[i].exc # "HTTPException") =>
            /\ sends[i].state = "returned"
            /\ sends[i].exc = None
            /\ i \in stasks

\* ------------------------------------------------------------------ claims: close

\* C27: once the user has called close, the read loop of connect opens no new
\* connection, also while that close is still running; when a close returns,
\* is_closed is true and the ready flag is cleared; a close that finds the
\* client closed is a no-op that closes neither the websocket nor the
\* transport.
C27_CloseOpensNoConnection ==
    [][/\ ((userCloses > 0 \/ closed) /\ pc = "poll") => Len(sockets') = Len(sockets)
       /\ \A c \in Callers :
            (closePc[c] = "http" /\ closePc'[c] = "idle") => (closed' /\ ~is_ready')
       /\ (closed /\ userCloses' # userCloses) =>
            UNCHANGED <<pc, ws, sockets, closed, is_ready, closePc, voice_clients>>]_vars

\* ------------------------------------------------------------------ claims: overwrites

\* base of the member of the call: the permissions of the everyone role and
\* of every role the member holds
BaseOfMember == default_role \cup UNION {role_perms[r] : r \in member_roles \cap RoleIds}

\* the role overwrites of the channel whose target is a role the member holds
HeldRoleOverwrites ==
    {i \in 1..Len(overwrites) :
        overwrites[i].type = "role" /\ overwrites[i].id \in member_roles}

\* C28: for a member who is neither the owner nor an administrator, the
\* permissions after the role-overwrite step are (base AND NOT denies) OR
\* allows, where allows and denies are the unions of the role overwrites that
\* target a role the member holds; other overwrites contribute nothing.
C28_RoleOverwritesCombined ==
    (result.called /\ member_id # OwnerId /\ administrator \notin BaseOfMember) =>
        /\ result.overwritten
        /\ result.after_roles =
              (BaseOfMember \ UNION {overwrites[i].deny : i \in HeldRoleOverwrites})
                  \cup UNION {overwrites[i].allow : i \in HeldRoleOverwrites}

\* a held role's overwrite takes a bit from base, and an overwrite of a role
\* the member does not hold allows bits that stay off
C28_Witness ==
    /\ result.called /\ result.overwritten
    /\ Len(overwrites) = 2
    /\ HeldRoleOverwrites = {1}
    /\ overwrites[2].type = "role"
    /\ read_messages \in BaseOfMember \cap overwrites[1].deny
    /\ read_messages \in overwrites[2].allow
    /\ read_messages \notin result.after_roles

\* the member overwrites of the channel for the member of the call
OwnMemberOverwrites ==
    {i \in 1..Len(overwrites) :
        overwrites[i].type = "member" /\ overwrites[i].id = member_id}

\* C29: the member overwrite is applied after the combined role overwrites
\* and wins: a bit it allows is on even if a role overwrite denies it, a bit
\* it denies and does not allow is off even if a role overwrite allows it,
\* and only the first member overwrite of the member is applied.
C29_MemberOverwriteWins ==
    (result.called /\ result.overwritten) =>
        IF OwnMemberOverwrites = {} THEN result.after_member = result.after_roles
        ELSE LET o == overwrites[CHOOSE i \in OwnMemberOverwrites : \A j \in OwnMemberOverwrites : i <= j] IN
             /\ o.allow \subseteq result.after_member
             /\ (o.deny \ o.allow) \cap result.after_member = {}
             /\ result.after_member \ (o.allow \cup o.deny)
                    = result.after_roles \ (o.allow \cup o.deny)

\* a held role denies read_messages and the member's overwrite allows it
C29_Witness ==
    /\ result.called /\ result.overwritten
    /\ OwnMemberOverwrites # {}
    /\ \E i \in HeldRoleOverwrites : read_messages \in overwrites[i].deny
    /\ \E i \in OwnMemberOverwrites : read_messages \in overwrites[i].allow
    /\ read_messages \notin result.after_roles
    /\ read_messages \in result.after_member

\* C30: for the default channel, the channel whose id is the id of the guild,
\* the result of permissions_for has the read-message bit on, for every
\* member and every list of overwrites, also ones that deny reading.
C30_DefaultChannelReadable ==
    (result.called /\ channel_id = GuildId) => read_messages \in result.value

\* the overwrites took read_messages from a plain member of the default channel
C30_Witness ==
    /\ result.called /\ result.overwritten
    /\ channel_id = GuildId
    /\ \E i \in 1..Len(overwrites) : read_messages \in overwrites[i].deny
    /\ read_messages \notin result.after_member
    /\ read_messages \in result.value

\* ------------------------------------------------------------------ claims: dependent bits

\* C31: in every result of permissions_for, if the send-message bit is off
\* then the text-to-speech-send, mention-everyone, embed-links and
\* attach-files bits are off.
C31_SendDependentsOff ==
    (result.called /\ send_messages \notin result.value) =>
        result.value \cap {send_tts_messages, mention_everyone, embed_links, attach_files} = {}

\* the member can read the channel and had dependent bits after the
\* overwrites, but not the send-message bit
C31_Witness ==
    /\ result.called /\ result.overwritten
    /\ send_messages \notin result.after_member
    /\ result.after_member
          \cap {send_tts_messages, mention_everyone, embed_links, attach_files} # {}
    /\ read_messages \in result.value
    /\ send_messages \notin result.value

\* C32 as stated: for a text channel the result of permissions_for has no
\* voice-only bit, for every member the function is called with.
C32_Original ==
    (result.called /\ channel_type = "text") => result.value \cap Permissions_voice = {}

\* C32: for a text channel the result of permissions_for has no voice-only
\* bit when the member is neither the owner nor an administrator; for the
\* owner and for an administrator the result is the full set, with every
\* voice bit, also in a text channel.
C32_TextChannelNoVoice ==
    (result.called /\ channel_type = "text") =>
        IF member_id = OwnerId \/ administrator \in BaseOfMember
        THEN Permissions_voice \subseteq result.value
        ELSE result.value \cap Permissions_voice = {}

\* a plain member of a text channel held voice bits after the overwrites
C32_Witness ==
    /\ result.called /\ result.overwritten
    /\ channel_type = "text"
    /\ result.after_member \cap Permissions_voice # {}
    /\ read_messages \in result.value
    /\ result.value \cap Permissions_voice = {}

\* ------------------------------------------------------------------ claims: reconnect

C34_CacheNeverStale ==
    /\ \A slot \in Slots :
         ecache[slot].present => ecache[slot].value = Computed(emsg, slot)
    /\ (eread.prop # "none" /\ ecache[eread.prop].present) =>
         eread.value = ecache[eread.prop].value

\* after updates that changed the content, raw_mentions was read and returned
\* the ids of the new content, while clean_content has not been read again
C34_Witness ==
    /\ ecount = MaxPatches
    /\ elast.content = Key(<<"<@11>">>)
    /\ eread = [prop |-> "_cs_raw_mentions", value |-> <<(<<11>>)>>]
    /\ ecache["_cs_raw_mentions"].present
    /\ ~ecache["_cs_clean_content"].present

\* C35: _update patches field by field: a field whose key is in the payload
\* gets the payload's value, a field whose key is absent is left as it was;
\* so after any sequence of payloads content and author hold the value of
\* the last payload that had their key.
C35_FieldByField ==
    /\ [][ecount' # ecount =>
            /\ emsg'.content = IF edata'.content.present
                               THEN edata'.content.value[1] ELSE emsg.content
            /\ emsg'.pinned = IF edata'.pinned.present
                              THEN edata'.pinned.value[1] ELSE emsg.pinned
            /\ emsg'.author = IF edata'.author.present
                              THEN User(edata'.author.value[1].id) ELSE emsg.author
          ]_vars
    /\ [](/\ elast.content.present => emsg.content = elast.content.value[1]
          /\ elast.author.present => emsg.author = User(elast.author.value[1].id))

\* two payloads were applied; the last one had neither content nor pinned,
\* and the message still has the content of the one before
C35_Witness ==
    /\ ecount = 2
    /\ ereq = NoRequest
    /\ ~edata.content.present /\ ~edata.pinned.present
    /\ edata.author.present
    /\ elast.content = Key(<<"<@11>">>)
    /\ emsg.content = "<@11>"
    /\ emsg.pinned

\* C36: the message changes only when the request was answered: the call of
\* edit, pin or unpin changes nothing before its request, a failed request
\* leaves the pinned flag and the content as they are, a successful pin sets
\* the flag and a successful unpin clears it.
C36_ChangeAfterSuccess ==
    [][/\ (ereq.state # "awaiting" /\ ereq'.state = "awaiting") => emsg' = emsg
       /\ (ereq.state = "awaiting" /\ ereq'.state = "raised") =>
            (emsg'.pinned = emsg.pinned /\ emsg'.content = emsg.content)
       /\ (ereq.state = "awaiting" /\ ereq'.state = "returned" /\ ereq.op = "pin") =>
            emsg'.pinned
       /\ (ereq.state = "awaiting" /\ ereq'.state = "returned" /\ ereq.op = "unpin") =>
            ~emsg'.pinned
      ]_vars

\* an unpin failed and the message is still pinned
C36_Witness ==
    /\ ereq = [op |-> "unpin", content |-> "", state |-> "raised"]
    /\ emsg.pinned
    /\ ecount = 0

\* ------------------------------------------------------------------ claims: wait-for futures

\* C37: in every interleaving of registrations, timeouts, cancellations and
\* events, no handler sets a result or an exception on a future that is not
\* pending; a future that is done or cancelled never changes again; and an
\* entry whose future is cancelled is dropped, its future left cancelled, by
\* the next event of its type.
C37_CompletedAtMostOnce ==
    /\ []~invalid_state
    /\ [][/\ \A w \in Waiters :
               fut[w].state \in {"result", "exception", "cancelled"} => fut'[w] = fut[w]
          /\ Len(dispatched') > Len(dispatched) =>
               \A i \in 1..Len(listeners) :
                  LET w == listeners[i] IN
                  (/\ wparams[w].type = dispatched'[Len(dispatched')].type
                   /\ fut[w].state = "cancelled") =>
                      /\ \A j \in 1..Len(listeners') : listeners'[j] # w
                      /\ fut'[w].state = "cancelled"
         ]_vars

\* a registration that timed out was dropped by an event that met its
\* requirements, and its future is still cancelled
C37_Witness ==
    \E w \in Waiters :
        /\ wpc[w] = "returned"
        /\ fut[w].state = "cancelled"
        /\ \A i \in 1..Len(listeners) : listeners[i] # w
        /\ \E n \in 1..Len(dispatched) : dispatched[n].type = wparams[w].type
        /\ \A n \in 1..Len(dispatched) :
              dispatched[n].type = wparams[w].type =>
                  condition(wparams[w], dispatched[n]) = "True"

\* C38: handling an event of one type changes the listener list only by
\* removing the entries of that type that matched, raised or were cancelled:
\* every entry of the other type and every live entry of that type that did
\* not match stays, in the order it had.
C38_OnlyOwnTypeRemoved ==
    [][Len(dispatched') > Len(dispatched) =>
          LET ev == dispatched'[Len(dispatched')]
              stays(w) ==
                  \/ wparams[w].type # ev.type
                  \/ /\ fut[w].state # "cancelled"
                     /\ condition(wparams[w], ev) = "False"
          IN  listeners' = SelectSeq(listeners, stays)
      ]_vars

\* a message event resolved the message registration and left the reaction
\* registration, which was listed before it, in the list
C38_Witness ==
    /\ Len(listeners) = 1
    /\ wparams[listeners[1]].type = "reaction"
    /\ fut[listeners[1]].state = "pending"
    /\ \E w \in Waiters :
          /\ wparams[w].type = "message"
          /\ listeners[1] < w
          /\ fut[w] = [state |-> "result", value |-> Len(dispatched)]
    /\ dispatched[Len(dispatched)].type = "message"

\* ------------------------------------------------------------------ claims: order of the overwrites

\* the lists with the entries of the channel's overwrite list in any order
\* that keeps the member overwrites of the member of the call in their order
Reordered ==
    LET n == Len(overwrites)
        own(o) == o.type = "member" /\ o.id = member_id
    IN  {q \in [1..n -> {overwrites[i] : i \in 1..n}] :
            /\ \A o \in {overwrites[i] : i \in 1..n} : Count(q, o) = Count(overwrites, o)
            /\ SelectSeq(q, own) = SelectSeq(overwrites, own)}

\* C39: the result of permissions_for does not depend on the order of the
\* role overwrites in the overwrite list: with the member overwrite of the
\* member in place, every reordering of the list, the one _fill_overwrites
\* makes included, gives the same permission set.
C39_OrderIndependent ==
    result.called =>
        \A q \in Reordered :
            permissions_for(default_role, role_perms, member_id, member_roles, q,
                            channel_id, channel_type) = result.value

\* two overwrites of roles the member holds, one allowing what the other
\* denies, so that their order could matter
C39_Witness ==
    /\ result.called /\ result.overwritten
    /\ Len(overwrites) = 2
    /\ HeldRoleOverwrites = {1, 2}
    /\ overwrites[1].id # overwrites[2].id
    /\ overwrites[1].allow \cap overwrites[2].deny # {}
    /\ Cardinality(Reordered) = 2
====
